---- MODULE Spec2Model ----
(***************************************************************************)
(* Incremental execution graph (execution_graph crate): nodes memoize tape *)
(* invocations, a dirty engine over interned resource keys schedules       *)
(* re-execution, and every successful run rewrites the dependency sets of  *)
(* the node's output keys from the reads observed during that run.         *)
(*                                                                         *)
(* Node ids are the 0-based indices of the node vector; interned key ids   *)
(* are the 1-based positions of the interner's key table.                  *)
(*                                                                         *)
(* Of the execution_tape crate the module holds the LEB128 codec           *)
(* (format/leb128.rs, variables buf and offset), the aggregate heap        *)
(* (aggregates.rs, variable heap) and the dataflow solvers with the        *)
(* liveness analysis (analysis/dataflow.rs, analysis/liveness.rs, variable *)
(* solver); of the execution_tape_profiling crate the scope stack of the   *)
(* trace sink (sink.rs, variable stack).                                   *)
(***************************************************************************)
EXTENDS Integers, Sequences, FiniteSets, TLC

VARIABLES nodes, dirty, input_ids, scratch, kv, programs, last, unmarked, ops, limit,
          heap, buf, offset, solver, stack

vars == <<nodes, dirty, input_ids, scratch, kv, programs, last, unmarked, ops, limit,
          heap, buf, offset, solver, stack>>

(***************************************************************************)
(* Bounds of the exploration.                                              *)
(***************************************************************************)
MaxNodes == 3
MaxOps == 5
MaxEngineOps == 4
MaxArgsOps == 5
MaxChainOps == 10
MaxChainNodes == 2
MaxHostOps == 6
MaxTapeOps == 9
MaxTapeNodes == 2
MaxDirtyOps == 8
MaxLebOps == 3
MaxPrefix == 1
MaxAggOps == 3
MaxAggLen == 2
MaxStampOps == 9
MaxStampNodes == 2
MaxBlocks == 2
MaxFlowOps == 1
MaxLiveOps == 1
MaxSinkOps == 5
MaxSoundOps == 10
MaxTargetOps == 13
MaxPairOps == 7
MaxWriteOps == 5
MaxGlobalOps == 7

\* The number of values of a handle (2^32 for the u32 of AggHandle).
HandleLimit == 2

\* Number of values of the epoch Scratch::stamp: 2^32 in the source (u32,
\* wrapping_add), scaled down here so that the wrap is within reach.
StampModulus == 4

Values == {0, 1}

(***************************************************************************)
(* Small helpers.                                                          *)
(***************************************************************************)
EmptyMap == [x \in {} |-> 0]

MapPut(m, k, v) == [x \in (DOMAIN m) \cup {k} |-> IF x = k THEN v ELSE m[x]]

Range(s) == {s[i] : i \in 1..Len(s)}

\* The sequence s as an explicit tuple.
AsSeq(s) == <<>> \o s

RECURSIVE SumSeq(_)
SumSeq(s) == IF s = <<>> THEN 0 ELSE Head(s) + SumSeq(Tail(s))

(***************************************************************************)
(* access.rs: resource keys and accesses.                                  *)
(***************************************************************************)
Input(name) == <<"Input", name>>
TapeOutput(node, output) == <<"TapeOutput", node, output>>
HostState(op, key) == <<"HostState", op, key>>
OpaqueHost(op) == <<"OpaqueHost", op>>

Read(key) == <<"Read", key>>
Write(key) == <<"Write", key>>

\* tape_access.rs: a borrowed tape key becomes the owned key of the same
\* variant and payload.  Borrowed keys are written <<variant, payload...>>
\* with the variants InputRef, HostStateRef and OpaqueHostRef.
map_key(ref) ==
  IF ref[1] = "InputRef" THEN Input(ref[2])
  ELSE IF ref[1] = "HostStateRef" THEN HostState(ref[2], ref[3])
  ELSE OpaqueHost(ref[2])

(***************************************************************************)
(* graph.rs: error values.                                                 *)
(***************************************************************************)
Ok == <<"Ok">>
BadNodeId == <<"BadNodeId">>
MissingInput(node, name) == <<"MissingInput", node, name>>
MissingUpstreamOutput(node, name) == <<"MissingUpstreamOutput", node, name>>
BadOutputArity(node) == <<"BadOutputArity", node>>
Trap == <<"Trap">>

(***************************************************************************)
(* dirty.rs: the dirty engine.  d.keys is the interner's table, d.edges    *)
(* the dependency edges <<from, to>> ("from depends on to") of channel 0,  *)
(* d.marks the root dirty marks.                                           *)
(***************************************************************************)
NewEngine == [keys |-> <<>>, edges |-> {}, marks |-> {}]

HasKey(d, key) == \E i \in 1..Len(d.keys) : d.keys[i] = key

\* An interner that assigns a new id on every call.
intern_always_appending(d, key) == [d EXCEPT !.keys = Append(@, key)]

intern(d, key) == IF HasKey(d, key) THEN d ELSE [d EXCEPT !.keys = Append(@, key)]

key_index(keys, key) == CHOOSE i \in 1..Len(keys) : keys[i] = key

\* The id intern(key) returns.
intern_id(d, key) == IF HasKey(d, key) THEN key_index(d.keys, key) ELSE Len(d.keys) + 1

RECURSIVE intern_all(_, _)
intern_all(d, ks) ==
  IF ks = <<>> THEN d ELSE intern_all(intern(d, Head(ks)), Tail(ks))

\* A marking that propagates to the direct dependents at mark time.
mark_dirty_eager(d, id) ==
  [d EXCEPT !.marks = @ \cup {id} \cup {e[1] : e \in {x \in d.edges : x[2] = id}}]

mark_dirty(d, id) == [d EXCEPT !.marks = @ \cup {id}]

dependencies(d, id) == {e[2] : e \in {x \in d.edges : x[1] = id}}

dependents(d, id) == {e[1] : e \in {x \in d.edges : x[2] = id}}

dep_step(d, S) == S \cup UNION {dependencies(d, i) : i \in S}

RECURSIVE closure_from(_, _, _)
closure_from(d, S, N) == IF N = S THEN S ELSE closure_from(d, N, dep_step(d, N))

\* Everything reachable from S along dependency edges, S included.
dep_closure(d, S) == closure_from(d, S, dep_step(d, S))

\* CycleHandling::Error: the edge from -> to closes a cycle when from is
\* already reachable from to (a self-edge included).
would_cycle(d, from, to) == from \in dep_closure(d, {to})

\* An add_dependency without the cycle check.
add_dependency_unchecked(d, from, to) == [d EXCEPT !.edges = @ \cup {<<from, to>>}]

add_dependency(d, from, to) ==
  IF would_cycle(d, from, to) THEN d
  ELSE [d EXCEPT !.edges = @ \cup {<<from, to>>}]

\* What DirtyEngine::add_dependency and DirtyEngine::set_dependencies hand
\* back to their caller: both discard the tracker's Result and return ().
Unit == <<"Unit">>
add_dependency_returns(d, from, to) == Unit
set_dependencies_returns(d, from, to) == Unit

\* A replace_dependencies that has dropped the old edges when it detects the
\* cycle.
set_dependencies_dropping(d, from, to) ==
  IF \E t \in to : would_cycle([d EXCEPT !.edges = {e \in d.edges : e[1] # from}], from, t)
  THEN [d EXCEPT !.edges = {e \in d.edges : e[1] # from}]
  ELSE [d EXCEPT !.edges = {e \in d.edges : e[1] # from} \cup {<<from, t>> : t \in to}]

\* A replace_dependencies that only adds the new edges.
set_dependencies_adding(d, from, to) ==
  IF \E t \in to : would_cycle([d EXCEPT !.edges = {e \in d.edges : e[1] # from}], from, t)
  THEN d
  ELSE [d EXCEPT !.edges = @ \cup {<<from, t>> : t \in to}]

set_dependencies(d, from, to) ==
  LET kept == {e \in d.edges : e[1] # from}
      base == [d EXCEPT !.edges = kept]
  IN IF \E t \in to : would_cycle(base, from, t) THEN d
     ELSE [d EXCEPT !.edges = kept \cup {<<from, t>> : t \in to}]

affected_step(d, S) == S \cup UNION {dependents(d, i) : i \in S}

RECURSIVE affected_from(_, _, _)
affected_from(d, S, N) == IF N = S THEN S ELSE affected_from(d, N, affected_step(d, N))

\* A propagation that stops at the marked ids.
affected_marks_only(d) == d.marks

\* Marked ids and everything that transitively depends on one.
affected(d) == affected_from(d, d.marks, affected_step(d, d.marks))

RECURSIVE ascending(_)
ascending(S) ==
  IF S = {} THEN <<>>
  ELSE LET m == CHOOSE x \in S : \A y \in S : x <= y
       IN <<m>> \o ascending(S \ {m})

\* The ids a drain yields: layer after layer, a layer being the affected ids
\* all of whose affected dependencies were yielded before; ascending id
\* within a layer.
RECURSIVE drain_layers(_, _, _)
drain_layers(d, left, acc) ==
  IF left = {} THEN acc
  ELSE LET ready == {i \in left : dependencies(d, i) \cap left = {}}
       IN drain_layers(d, left \ ready, acc \o ascending(ready))

\* An order by id alone.
drain_order_by_id(d) == ascending(affected(d))

drain_order(d) == drain_layers(d, affected(d), <<>>)

\* A drain that leaves the marks in place.
drain_keeping_marks(d) == d

\* Draining consumes the marks.
drain(d) == [d EXCEPT !.marks = {}]

(***************************************************************************)
(* graph.rs: Scratch.                                                      *)
(***************************************************************************)
NewScratch ==
  [to_run |-> <<>>, restore |-> <<>>, stack |-> <<>>, seen_stamp |-> <<>>, stamp |-> 0]

start_drain(s, node_count) ==
  LET resized == IF Len(s.seen_stamp) < node_count
                 THEN s.seen_stamp \o AsSeq([i \in 1..(node_count - Len(s.seen_stamp)) |-> 0])
                 ELSE s.seen_stamp
      bumped == (s.stamp + 1) % StampModulus
  IN [to_run |-> <<>>, restore |-> <<>>, stack |-> <<>>,
      seen_stamp |-> IF bumped = 0 THEN AsSeq([i \in 1..Len(resized) |-> 0]) ELSE resized,
      stamp |-> IF bumped = 0 THEN 1 ELSE bumped]

\* A take_node that does not look at the seen-stamp.
take_node_unseen(s, node) ==
  IF ~(node \in 0..(Len(s.seen_stamp) - 1)) THEN s
  ELSE [s EXCEPT !.seen_stamp[node + 1] = s.stamp, !.to_run = Append(@, node)]

take_node(s, node) ==
  IF ~(node \in 0..(Len(s.seen_stamp) - 1)) THEN s
  ELSE IF s.seen_stamp[node + 1] = s.stamp THEN s
  ELSE [s EXCEPT !.seen_stamp[node + 1] = s.stamp, !.to_run = Append(@, node)]

(***************************************************************************)
(* Node programs.  A verified program is described by what a run of its    *)
(* entry function does: the number of declared return values (rets), the   *)
(* host calls it makes (host), and how it ends (kind):                     *)
(*   "pure"   returns rets values computed from the arguments and the      *)
(*            values the host calls returned;                              *)
(*   "trapz"  as pure, but traps when that value is 0 (division by zero);  *)
(*   "arity"  returns one value more than declared.                        *)
(* A host call kv.get(key) returns kv[key] and records rec in the access   *)
(* sink, as the KvHost of the tests does.                                  *)
(***************************************************************************)
KvGet(key, rec) == [sym |-> "kv.get", key |-> key, rec |-> rec]

ProgIdent == [kind |-> "pure", rets |-> 1, host |-> <<>>]
ProgTrapZ == [kind |-> "trapz", rets |-> 1, host |-> <<>>]
ProgArity == [kind |-> "arity", rets |-> 1, host |-> <<>>]
ProgKvPair ==
  [kind |-> "pure", rets |-> 2,
   host |-> <<KvGet(1, <<"read", <<"HostStateRef", 1, 1>>>>)>>]
ProgSink == [kind |-> "pure", rets |-> 0, host |-> <<>>]
\* Programs of one argument and one host call, which reports a read of a
\* borrowed key.
ProgProbe(ref) ==
  [kind |-> "pure", rets |-> 1,
   host |-> <<[sym |-> "probe", key |-> 2, rec |-> <<"read", ref>>]>>]

\* What add_node is called with: a program and the input-name list.
Ident == [program |-> ProgIdent, input_names |-> <<"a">>]
TrapZ == [program |-> ProgTrapZ, input_names |-> <<"a">>]
Arity == [program |-> ProgArity, input_names |-> <<>>]
KvPair == [program |-> ProgKvPair, input_names |-> <<>>]
Sink == [program |-> ProgSink, input_names |-> <<>>]
Probe(ref) == [program |-> ProgProbe(ref), input_names |-> <<"a">>]

\* The program sets an embedder builds its graph from.
Libraries == {{Ident}, {KvPair}, {TrapZ}, {Arity}, {Sink}}

InputNames == {"a"}
OutputNames == {"ret0", "ret1"}
InvalidateKeys == {HostState(1, 1)}

\* Output names of a function with ret_count unnamed return values.
default_output_names(ret_count) ==
  AsSeq([i \in 1..ret_count |-> IF i = 1 THEN "ret0" ELSE IF i = 2 THEN "ret1" ELSE "ret2"])

\* TapeAccessLog: the accesses the host calls of a run record, in order.
tape_access(program) ==
  AsSeq([i \in 1..Len(program.host) |->
           LET rec == program.host[i].rec
           IN IF rec[1] = "read" THEN Read(map_key(rec[2])) ELSE Write(map_key(rec[2]))])

\* Vm::run_with_ctx: the values the entry function returns, or a trap.
vm_run(program, args, kvs) ==
  LET got == AsSeq([i \in 1..Len(program.host) |-> kvs[program.host[i].key]])
      base == (SumSeq(args) + SumSeq(got)) % Cardinality(Values)
      count == IF program.kind = "arity" THEN program.rets + 1 ELSE program.rets
  IN IF program.kind = "trapz" /\ base = 0
     THEN [trap |-> TRUE, out |-> <<>>]
     ELSE [trap |-> FALSE,
           out |-> AsSeq([i \in 1..count |-> (base + i - 1) % Cardinality(Values)])]

(***************************************************************************)
(* graph.rs: run_node_internal.  The result of every step is handed to the *)
(* next one as a parameter: nodes and dirty are the graph after the run,   *)
(* run is what the run did (its result, the read ids, and the output keys  *)
(* whose dependency rewrite the cycle check refused).                      *)
(***************************************************************************)
NodeExists(ns, node) == node \in 0..(Len(ns) - 1)

Built(res, args, log) == [res |-> res, args |-> args, log |-> log]

\* Argument building that passes 0 for an input name without a binding.
RECURSIVE build_args_defaulting(_, _, _, _, _)
build_args_defaulting(ns, node, i, args, log) ==
  LET n == ns[node + 1] IN
  IF i > Len(n.input_names) THEN Built(Ok, args, log)
  ELSE
    LET name == n.input_names[i] IN
    IF name \notin DOMAIN n.inputs
    THEN build_args_defaulting(ns, node, i + 1, Append(args, 0), log)
    ELSE
      LET b == n.inputs[name] IN
      IF b[1] = "External"
      THEN build_args_defaulting(ns, node, i + 1, Append(args, b[2]),
                                 Append(log, Read(Input(name))))
      ELSE
        IF ~NodeExists(ns, b[2])
        THEN Built(BadNodeId, args, log)
        ELSE IF b[3] \notin DOMAIN ns[b[2] + 1].outputs
        THEN Built(MissingUpstreamOutput(b[2], b[3]), args, log)
        ELSE build_args_defaulting(ns, node, i + 1,
                                   Append(args, ns[b[2] + 1].outputs[b[3]]),
                                   Append(log, Read(TapeOutput(b[2], b[3]))))

\* Arguments and argument reads, in input-name order, up to the first
\* binding that cannot be resolved.
RECURSIVE build_args(_, _, _, _, _)
build_args(ns, node, i, args, log) ==
  LET n == ns[node + 1] IN
  IF i > Len(n.input_names) THEN Built(Ok, args, log)
  ELSE
    LET name == n.input_names[i] IN
    IF name \notin DOMAIN n.inputs
    THEN Built(MissingInput(node, name), args, log)
    ELSE
      LET b == n.inputs[name] IN
      IF b[1] = "External"
      THEN build_args(ns, node, i + 1, Append(args, b[2]), Append(log, Read(Input(name))))
      ELSE
        IF ~NodeExists(ns, b[2])
        THEN Built(BadNodeId, args, log)
        ELSE IF b[3] \notin DOMAIN ns[b[2] + 1].outputs
        THEN Built(MissingUpstreamOutput(b[2], b[3]), args, log)
        ELSE build_args(ns, node, i + 1,
                        Append(args, ns[b[2] + 1].outputs[b[3]]),
                        Append(log, Read(TapeOutput(b[2], b[3]))))

output_name_at(n, index) ==
  IF index + 1 \in 1..Len(n.output_names) THEN n.output_names[index + 1]
  ELSE IF index = 0 THEN "ret0" ELSE IF index = 1 THEN "ret1" ELSE "ret2"

RECURSIVE map_outputs(_, _, _, _)
map_outputs(n, out, i, acc) ==
  IF i > Len(out) THEN acc
  ELSE map_outputs(n, out, i + 1, MapPut(acc, output_name_at(n, i - 1), out[i]))

RECURSIVE output_writes(_, _, _, _)
output_writes(n, node, out, i) ==
  IF i > Len(out) THEN <<>>
  ELSE <<Write(TapeOutput(node, output_name_at(n, i - 1)))>> \o output_writes(n, node, out, i + 1)

\* The keys of the Read accesses of a log, in log order.
RECURSIVE read_keys(_)
read_keys(log) ==
  IF log = <<>> THEN <<>>
  ELSE IF Head(log)[1] = "Read" THEN <<Head(log)[2]>> \o read_keys(Tail(log))
  ELSE read_keys(Tail(log))

key_ids(d, ks) == {intern_id(d, ks[i]) : i \in 1..Len(ks)}

Rewritten(d, rejected) == [dirty |-> d, rejected |-> rejected]

\* The dependency rewrite of every output key of node, one key after the
\* other; rejected collects the keys whose rewrite the cycle check refused.
RECURSIVE rewrite_dependencies(_, _, _, _, _, _)
rewrite_dependencies(d, node, names, i, reads, rejected) ==
  IF i > Len(names) THEN Rewritten(d, rejected)
  ELSE
    LET out_id == intern_id(d, TapeOutput(node, names[i]))
        d1 == intern(d, TapeOutput(node, names[i]))
        refused == \E t \in reads :
                     would_cycle([d1 EXCEPT !.edges = {e \in d1.edges : e[1] # out_id}], out_id, t)
    IN rewrite_dependencies(set_dependencies(d1, out_id, reads), node, names, i + 1, reads,
                            IF refused THEN rejected \cup {out_id} ELSE rejected)

\* vm records whether the run reached Vm::run_with_ctx.
RunOf(node, res, reads, rejected) ==
  [node |-> node, res |-> res, reads |-> reads, rejected |-> rejected, vm |-> FALSE]

Invoked(r) == [r EXCEPT !.run.vm = TRUE]

\* An error return that has already counted the run.
Failed_counting_run(ns, d, node, res) ==
  [nodes |-> IF node \in 0..(Len(ns) - 1)
             THEN [ns EXCEPT ![node + 1].run_count = @ + 1] ELSE ns,
   dirty |-> d,
   run |-> [node |-> node, res |-> res, reads |-> {}, rejected |-> {}, vm |-> FALSE]]

Failed(ns, d, node, res) ==
  [nodes |-> ns, dirty |-> d, run |-> RunOf(node, res, {}, {})]

\* A commit that marks every interned key the log holds a Write of.
commit_run_marking_writes(ns, node, outputs, log, reads, rew) ==
  [nodes |-> [ns EXCEPT ![node + 1].outputs = outputs,
                        ![node + 1].last_access = log,
                        ![node + 1].run_count = @ + 1],
   dirty |-> [rew.dirty EXCEPT !.marks =
                @ \cup {i \in 1..Len(rew.dirty.keys) : Write(rew.dirty.keys[i]) \in Range(log)}],
   run |-> RunOf(node, Ok, reads, rew.rejected)]

\* Commit outputs, access log and run count.
commit_run(ns, node, outputs, log, reads, rew) ==
  [nodes |-> [ns EXCEPT ![node + 1].outputs = outputs,
                        ![node + 1].last_access = log,
                        ![node + 1].run_count = @ + 1],
   dirty |-> rew.dirty,
   run |-> RunOf(node, Ok, reads, rew.rejected)]

\* d has the read keys rks interned.
update_dependencies(ns, d, node, outputs, log, rks) ==
  commit_run(ns, node, outputs, log, key_ids(d, rks),
             rewrite_dependencies(d, node, ns[node + 1].output_names, 1, key_ids(d, rks), {}))

merge_access(ns, d, node, outputs, log) ==
  update_dependencies(ns, intern_all(d, read_keys(log)), node, outputs, log, read_keys(log))

run_returned(ns, d, node, log, ran) ==
  Invoked(IF ran.trap THEN Failed(ns, d, node, Trap)
          ELSE IF Len(ran.out) # Len(ns[node + 1].output_names)
          THEN Failed(ns, d, node, BadOutputArity(node))
          ELSE merge_access(ns, d, node,
                            map_outputs(ns[node + 1], ran.out, 1, EmptyMap),
                            log \o output_writes(ns[node + 1], node, ran.out, 1)
                                \o tape_access(ns[node + 1].program)))

\* A run that goes ahead with the arguments resolved so far.
run_built_ignoring_errors(ns, d, kvs, node, built) ==
  run_returned(ns, d, node, built.log, vm_run(ns[node + 1].program, built.args, kvs))

run_built(ns, d, kvs, node, built) ==
  IF built.res # Ok THEN Failed(ns, d, node, built.res)
  ELSE run_returned(ns, d, node, built.log, vm_run(ns[node + 1].program, built.args, kvs))

run_node_internal(ns, d, kvs, node) ==
  IF ~NodeExists(ns, node) THEN Failed(ns, d, node, BadNodeId)
  ELSE run_built(ns, d, kvs, node, build_args(ns, node, 1, <<>>, <<>>))

\* The serial fail-fast loop of run_all and run_node over the taken to_run.
RECURSIVE run_scheduled(_, _, _, _, _, _)
RECURSIVE run_next(_, _, _, _, _)
run_scheduled(ns, d, kvs, to_run, i, runs) ==
  IF i > Len(to_run) THEN [nodes |-> ns, dirty |-> d, res |-> Ok, runs |-> runs]
  ELSE run_next(kvs, to_run, i, runs, run_node_internal(ns, d, kvs, to_run[i]))

\* A loop that goes on to the next node after a failure.
run_next_continuing(kvs, to_run, i, runs, r) ==
  run_scheduled(r.nodes, r.dirty, kvs, to_run, i + 1, Append(runs, r.run))

run_next(kvs, to_run, i, runs, r) ==
  IF r.run.res # Ok
  THEN [nodes |-> r.nodes, dirty |-> r.dirty, res |-> r.run.res, runs |-> Append(runs, r.run)]
  ELSE run_scheduled(r.nodes, r.dirty, kvs, to_run, i + 1, Append(runs, r.run))

(***************************************************************************)
(* graph.rs: helpers of the public operations.                             *)
(***************************************************************************)
NewNode(t) ==
  [program |-> t.program,
   input_names |-> t.input_names,
   inputs |-> EmptyMap,
   output_names |-> default_output_names(t.program.rets),
   outputs |-> EmptyMap,
   last_access |-> <<>>,
   run_count |-> 0]

\* add_node: intern and mark every declared output key.
RECURSIVE mark_outputs(_, _, _, _)
mark_outputs(d, node, names, i) ==
  IF i > Len(names) THEN d
  ELSE mark_outputs(mark_dirty(intern(d, TapeOutput(node, names[i])),
                               intern_id(d, TapeOutput(node, names[i]))),
                    node, names, i + 1)

\* connect: a conservative edge from every output key of `to` to src, and a
\* mark on each of them.
RECURSIVE wire_outputs(_, _, _, _, _)
wire_outputs(d, to, names, i, src) ==
  IF i > Len(names) THEN d
  ELSE wire_outputs(mark_dirty(add_dependency(intern(d, TapeOutput(to, names[i])),
                                              intern_id(d, TapeOutput(to, names[i])), src),
                               intern_id(d, TapeOutput(to, names[i]))),
                    to, names, i + 1, src)

\* run_all: every yielded TapeOutput key schedules its node once.
RECURSIVE schedule_all(_, _, _, _)
schedule_all(s, d, order, i) ==
  IF i > Len(order) THEN s
  ELSE schedule_all(IF d.keys[order[i]][1] = "TapeOutput"
                    THEN take_node(s, d.keys[order[i]][2]) ELSE s,
                    d, order, i + 1)

\* A run_node schedule that does not filter by the closure.
schedule_ignoring_closure(s, d, order, i, closure) == schedule_all(s, d, order, i)

\* run_node: yielded keys outside the closure go to restore, the others
\* schedule their node.
RECURSIVE schedule_within(_, _, _, _, _)
schedule_within(s, d, order, i, closure) ==
  IF i > Len(order) THEN s
  ELSE schedule_within(IF order[i] \notin closure
                       THEN [s EXCEPT !.restore = Append(@, order[i])]
                       ELSE IF d.keys[order[i]][1] = "TapeOutput"
                       THEN take_node(s, d.keys[order[i]][2])
                       ELSE s,
                       d, order, i + 1, closure)

RECURSIVE mark_all(_, _, _)
mark_all(d, ids, i) ==
  IF i > Len(ids) THEN d ELSE mark_all(mark_dirty(d, ids[i]), ids, i + 1)

output_ids(d, node, names) == {intern_id(d, TapeOutput(node, names[i])) : i \in 1..Len(names)}

\* The dependency closure of node's output keys (the DFS of run_node).
node_closure(ns, d, node) == dep_closure(d, output_ids(d, node, ns[node + 1].output_names))

(***************************************************************************)
(* Observation of the calls.  last describes the most recent call of a     *)
(* public operation: its result, the ids its drain yielded, the closure    *)
(* run_node computed, the scheduled nodes (plan) and the runs made, in     *)
(* order; last.before summarises the call before it.  unmarked holds the   *)
(* nodes whose run failed in a run_all and none of whose output keys, nor  *)
(* any key these transitively depend on, was passed to mark_dirty since.   *)
(***************************************************************************)
NoCall == [op |-> "none", res |-> Ok, ran |-> {}, pending |-> {}]

Called(op, args, res) ==
  [op |-> op, args |-> args, res |-> res, plan |-> <<>>, runs |-> <<>>,
   yielded |-> <<>>, closure |-> {}, before |-> NoCall]

Ran(op, args, order, closure, plan, r) ==
  [op |-> op, args |-> args, res |-> r.res, plan |-> plan, runs |-> r.runs,
   yielded |-> order, closure |-> closure, before |-> NoCall]

\* Nodes whose run succeeded / was attempted in the call l.
ran_ok(l) == {l.runs[i].node : i \in {j \in 1..Len(l.runs) : l.runs[j].res = Ok}}
attempted(l) == {l.runs[i].node : i \in 1..Len(l.runs)}

\* Existing nodes owning a TapeOutput key among the ids.
owners(ns, d, ids) ==
  {d.keys[k][2] : k \in {j \in ids : d.keys[j][1] = "TapeOutput" /\ NodeExists(ns, d.keys[j][2])}}

Summary(l, ns, d) ==
  [op |-> l.op, res |-> l.res, ran |-> ran_ok(l),
   pending |-> owners(ns, d, Range(l.yielded)) \ ran_ok(l)]

\* The call `call` was made and left the nodes ns and the engine d; it passed
\* the ids in marked to mark_dirty, and base are the failed nodes carried over.
Note(call, base, marked, ns, d) ==
  /\ last' = [call EXCEPT !.before = Summary(last, nodes, dirty)]
  /\ limit' = limit
  /\ unmarked' = {n \in base :
                    dep_closure(d, output_ids(d, n, ns[n + 1].output_names))
                      \cap marked = {}}

failed_node(l) ==
  IF l.res # Ok /\ l.runs # <<>> THEN {l.runs[Len(l.runs)].node} ELSE {}

(***************************************************************************)
(* The state machine: one action per public operation.  ops counts the     *)
(* calls made so far, limit is the number of calls explored.               *)
(***************************************************************************)
\* No dataflow problem has been handed to a solver.
NoSolver ==
  [dir |-> "none", blocks |-> <<>>, reachable |-> <<>>, meet |-> "union", bottom |-> {},
   in_states |-> <<>>, out_states |-> <<>>, work |-> <<>>, done |-> FALSE]

\* ExecutionGraph::new, for an embedder that builds its graph from one of
\* the libraries and makes at most calls calls.
New(libraries, calls) ==
  /\ nodes = <<>>
  /\ dirty = NewEngine
  /\ input_ids = EmptyMap
  /\ scratch = NewScratch
  /\ kv = [k \in {1, 2} |-> 1]
  /\ programs \in libraries
  /\ last = Called("new", <<>>, Ok)
  /\ unmarked = {}
  /\ ops = 0
  /\ limit = calls
  /\ heap = <<>>
  /\ buf = <<>>
  /\ offset = 0
  /\ solver = NoSolver
  /\ stack = <<>>

Init == New(Libraries, MaxOps)

add_node(t) ==
  /\ ops < limit
  /\ Len(nodes) < MaxNodes
  /\ dirty' = mark_outputs(dirty, Len(nodes), default_output_names(t.program.rets), 1)
  /\ nodes' = Append(nodes, NewNode(t))
  /\ Note(Called("add_node", <<>>, Ok), unmarked,
          output_ids(dirty', Len(nodes), default_output_names(t.program.rets)), nodes', dirty')
  /\ ops' = ops + 1
  /\ UNCHANGED <<input_ids, scratch, kv, programs, heap, buf, offset, solver, stack>>

\* A set_input_value that also marks the input key, as invalidate_input does.
set_input_value_marking(node, name, value) ==
  /\ ops < limit
  /\ nodes' = IF NodeExists(nodes, node)
              THEN [nodes EXCEPT ![node + 1].inputs = MapPut(@, name, <<"External", value>>)]
              ELSE nodes
  /\ dirty' = mark_dirty(intern(dirty, Input(name)), intern_id(dirty, Input(name)))
  /\ Note(Called("set_input_value", <<>>, Ok), unmarked, {intern_id(dirty, Input(name))},
          nodes', dirty')
  /\ ops' = ops + 1
  /\ UNCHANGED <<input_ids, scratch, kv, programs, heap, buf, offset, solver, stack>>

set_input_value(node, name, value) ==
  /\ ops < limit
  /\ nodes' = IF NodeExists(nodes, node)
              THEN [nodes EXCEPT ![node + 1].inputs = MapPut(@, name, <<"External", value>>)]
              ELSE nodes
  /\ Note(Called("set_input_value", <<>>, Ok), unmarked, {}, nodes', dirty)
  /\ ops' = ops + 1
  /\ UNCHANGED <<dirty, input_ids, scratch, kv, programs, heap, buf, offset, solver, stack>>

connect(from, output, to, input) ==
  /\ ops < limit
  /\ nodes' = IF NodeExists(nodes, to)
              THEN [nodes EXCEPT ![to + 1].inputs = MapPut(@, input, <<"FromNode", from, output>>)]
              ELSE nodes
  /\ dirty' = IF NodeExists(nodes, to)
              THEN wire_outputs(intern(dirty, TapeOutput(from, output)), to,
                                nodes[to + 1].output_names, 1,
                                intern_id(dirty, TapeOutput(from, output)))
              ELSE dirty
  /\ Note(Called("connect", <<>>, Ok), unmarked,
          IF NodeExists(nodes, to) THEN output_ids(dirty', to, nodes[to + 1].output_names) ELSE {},
          nodes', dirty')
  /\ ops' = ops + 1
  /\ UNCHANGED <<input_ids, scratch, kv, programs, heap, buf, offset, solver, stack>>

\* intern_input_id: the cached id of Input(name), interned on first use.
intern_input_id(name) ==
  IF name \in DOMAIN input_ids THEN input_ids[name] ELSE intern_id(dirty, Input(name))

invalidate_input(name) ==
  /\ ops < limit
  /\ dirty' = mark_dirty(IF name \in DOMAIN input_ids THEN dirty ELSE intern(dirty, Input(name)),
                         intern_input_id(name))
  /\ input_ids' = IF name \in DOMAIN input_ids THEN input_ids
                  ELSE MapPut(input_ids, name, intern_id(dirty, Input(name)))
  /\ Note(Called("invalidate_input", <<Input(name)>>, Ok), unmarked, {intern_input_id(name)},
          nodes, dirty')
  /\ ops' = ops + 1
  /\ UNCHANGED <<nodes, scratch, kv, programs, heap, buf, offset, solver, stack>>

\* The ids of the interned keys with the variant and the host operation of
\* key.
same_op(d, key) == {i \in 1..Len(d.keys) : d.keys[i][1] = key[1] /\ d.keys[i][2] = key[2]}

\* An invalidation that marks every key of the host operation.
invalidate_whole_op(key) ==
  /\ ops < limit
  /\ dirty' = [intern(dirty, key) EXCEPT !.marks = @ \cup same_op(intern(dirty, key), key)]
  /\ Note(Called("invalidate", <<key>>, Ok), unmarked, same_op(intern(dirty, key), key),
          nodes, dirty')
  /\ ops' = ops + 1
  /\ UNCHANGED <<nodes, input_ids, scratch, kv, programs, heap, buf, offset, solver, stack>>

invalidate(key) ==
  /\ ops < limit
  /\ dirty' = mark_dirty(intern(dirty, key), intern_id(dirty, key))
  /\ Note(Called("invalidate", <<key>>, Ok), unmarked, {intern_id(dirty, key)}, nodes, dirty')
  /\ ops' = ops + 1
  /\ UNCHANGED <<nodes, input_ids, scratch, kv, programs, heap, buf, offset, solver, stack>>

\* invalidate_tape_key: the borrowed key is routed by its variant.
invalidate_tape_key(ref) ==
  IF ref[1] = "InputRef" THEN invalidate_input(ref[2])
  ELSE IF ref[1] = "HostStateRef" THEN invalidate(HostState(ref[2], ref[3]))
  ELSE invalidate(OpaqueHost(ref[2]))

\* The embedder changes the state behind its host calls; the graph is not
\* told (KvHost shares its map with the embedder).
host_insert(key, value) ==
  /\ ops < limit
  /\ kv' = [kv EXCEPT ![key] = value]
  /\ ops' = ops + 1
  /\ UNCHANGED <<nodes, dirty, input_ids, scratch, programs, heap, buf, offset, solver, stack, last, unmarked, limit>>

\* A run_all that marks the drained keys again when a node fails.
run_all_finish_remarking(s, order, r) ==
  /\ nodes' = r.nodes
  /\ dirty' = IF r.res = Ok THEN r.dirty ELSE mark_all(r.dirty, order, 1)
  /\ scratch' = [s EXCEPT !.to_run = <<>>]
  /\ Note(Ran("run_all", <<>>, order, {}, s.to_run, r),
          (unmarked \ attempted(r)) \cup failed_node(r), {}, nodes', dirty')

\* run_all after the drain: s holds the schedule, r is the outcome of the
\* fail-fast loop.
run_all_finish(s, order, r) ==
  /\ nodes' = r.nodes
  /\ dirty' = r.dirty
  /\ scratch' = [s EXCEPT !.to_run = <<>>]
  /\ Note(Ran("run_all", <<>>, order, {}, s.to_run, r),
          (unmarked \ attempted(r)) \cup failed_node(r), {}, nodes', dirty')

run_all_scheduled(s, order) ==
  run_all_finish(s, order, run_scheduled(nodes, drain(dirty), kv, s.to_run, 1, <<>>))

run_all_drained(order) ==
  run_all_scheduled(schedule_all(start_drain(scratch, Len(nodes)), dirty, order, 1), order)

run_all ==
  /\ ops < limit
  /\ run_all_drained(drain_order(dirty))
  /\ ops' = ops + 1
  /\ UNCHANGED <<input_ids, kv, programs, heap, buf, offset, solver, stack>>

\* run_node after the drain: the restore step is reached only when every
\* scheduled node succeeded.
run_node_finish(node, s, order, closure, r) ==
  /\ nodes' = r.nodes
  /\ dirty' = IF r.res = Ok THEN mark_all(r.dirty, s.restore, 1) ELSE r.dirty
  /\ scratch' = [s EXCEPT !.to_run = <<>>]
  /\ Note(Ran("run_node", <<node>>, order, closure, s.to_run, r),
          unmarked \ attempted(r), IF r.res = Ok THEN Range(s.restore) ELSE {},
          nodes', dirty')

run_node_scheduled(node, s, order, closure) ==
  run_node_finish(node, s, order, closure,
                  run_scheduled(nodes, drain(dirty), kv, s.to_run, 1, <<>>))

run_node_drained(node, order, closure) ==
  run_node_scheduled(node,
                     schedule_within(start_drain(scratch, Len(nodes)), dirty, order, 1, closure),
                     order, closure)

\* A run_node that drains before it looks the node up.
run_node_draining_first(node) ==
  /\ ops < limit
  /\ IF ~NodeExists(nodes, node)
     THEN /\ dirty' = drain(dirty)
          /\ UNCHANGED <<nodes, scratch>>
          /\ Note(Called("run_node", <<node>>, BadNodeId), unmarked, {}, nodes, dirty')
     ELSE run_node_drained(node, drain_order(dirty), node_closure(nodes, dirty, node))
  /\ ops' = ops + 1
  /\ UNCHANGED <<input_ids, kv, programs, heap, buf, offset, solver, stack>>

run_node(node) ==
  /\ ops < limit
  /\ IF ~NodeExists(nodes, node)
     THEN /\ UNCHANGED <<nodes, dirty, scratch>>
          /\ Note(Called("run_node", <<node>>, BadNodeId), unmarked, {}, nodes, dirty)
     ELSE run_node_drained(node, drain_order(dirty), node_closure(nodes, dirty, node))
  /\ ops' = ops + 1
  /\ UNCHANGED <<input_ids, kv, programs, heap, buf, offset, solver, stack>>

Next ==
  \/ \E t \in programs : add_node(t)
  \/ \E node \in 0..(Len(nodes) - 1), name \in InputNames, value \in Values :
       set_input_value(node, name, value)
  \/ \E from \in 0..Len(nodes), output \in OutputNames,
        to \in 0..(Len(nodes) - 1), input \in InputNames :
       connect(from, output, to, input)
  \/ \E name \in InputNames : invalidate_input(name)
  \/ \E key \in InvalidateKeys : invalidate(key)
  \/ run_all
  \/ \E node \in 0..Len(nodes) : run_node(node)

Spec == Init /\ [][Next]_vars

\* The same operations over fewer calls, for the properties of the engine's
\* pure operations, which are evaluated for every pair of ids of a state.
InitEngine == New(Libraries, MaxEngineOps)

SpecEngine == InitEngine /\ [][Next]_vars

\* An embedder whose nodes take two arguments, "a" and "b", each bound to
\* an external value or to an upstream output, or left unbound.
Add2 == [program |-> ProgIdent, input_names |-> <<"a", "b">>]

ArgsLibraries == {{Add2}}

ArgNames == {"a", "b"}

InitArgs == New(ArgsLibraries, MaxArgsOps)

NextArgs ==
  \/ \E t \in programs : add_node(t)
  \/ \E node \in 0..(Len(nodes) - 1), name \in ArgNames, value \in Values :
       set_input_value(node, name, value)
  \/ \E from \in 0..Len(nodes), output \in OutputNames,
        to \in 0..(Len(nodes) - 1), input \in ArgNames :
       connect(from, output, to, input)
  \/ run_all
  \/ \E node \in 0..Len(nodes) : run_node(node)

SpecArgs == InitArgs /\ [][NextArgs]_vars

\* An embedder that wires a few identity nodes into chains, rebinds their
\* inputs and invalidates the input name.
ChainLibraries == {{Ident}}

InitChain == New(ChainLibraries, MaxChainOps)

NextChain ==
  \/ \E t \in programs : Len(nodes) < MaxChainNodes /\ add_node(t)
  \/ \E node \in 0..(Len(nodes) - 1), name \in InputNames, value \in Values :
       set_input_value(node, name, value)
  \/ \E from \in 0..(Len(nodes) - 1), to \in 0..(Len(nodes) - 1), input \in InputNames :
       connect(from, "ret0", to, input)
  \/ \E name \in InputNames : invalidate_input(name)
  \/ run_all

SpecChain == InitChain /\ [][NextChain]_vars

\* An embedder whose nodes read kv[1] through a host call, and which changes
\* the map and invalidates its keys.
HostLibraries == {{KvPair}}

HostKeys == {HostState(1, 1), HostState(1, 2)}

InitHost == New(HostLibraries, MaxHostOps)

NextHost ==
  \/ \E t \in programs : add_node(t)
  \/ \E key \in DOMAIN kv, value \in Values : host_insert(key, value)
  \/ \E key \in HostKeys : invalidate(key)
  \/ run_all
  \/ \E node \in 0..Len(nodes) : run_node(node)

SpecHost == InitHost /\ [][NextHost]_vars

\* An embedder whose nodes take one argument and read host keys of the three
\* borrowed variants, and which invalidates by borrowed and by owned key.
TapeRefs == {<<"InputRef", "h">>, <<"HostStateRef", 1, 1>>, <<"OpaqueHostRef", 2>>}

TapeLibraries == {{Probe(ref)} : ref \in TapeRefs}

\* The borrowed keys the host calls of the library report.
reported(library) ==
  UNION {{t.program.host[i].rec[2] : i \in 1..Len(t.program.host)} : t \in library}

TapeValues == {0}

InitTape == New(TapeLibraries, MaxTapeOps)

NextTape ==
  \/ \E t \in programs : Len(nodes) < MaxTapeNodes /\ add_node(t)
  \/ \E node \in 0..(Len(nodes) - 1), name \in InputNames, value \in TapeValues :
       set_input_value(node, name, value)
  \/ \E from \in 0..(Len(nodes) - 1), to \in 0..(Len(nodes) - 1), input \in InputNames :
       connect(from, "ret0", to, input)
  \/ \E ref \in reported(programs) : invalidate_tape_key(ref)
  \/ \E ref \in reported(programs) : invalidate(map_key(ref))
  \/ run_all

SpecTape == InitTape /\ [][NextTape]_vars

(***************************************************************************)
(* dirty.rs: the DirtyEngine on its own, driven call by call.  last.closure *)
(* holds the marks a drain found and last.yielded the ids it yielded.      *)
(***************************************************************************)
DirtyKeys == {Input("a"), TapeOutput(0, "ret0"), HostState(1, 1)}

engine_call(op, args, marked) ==
  /\ Note(Called(op, args, Ok), unmarked, marked, nodes, dirty')
  /\ ops' = ops + 1
  /\ UNCHANGED <<nodes, input_ids, scratch, kv, programs, heap, buf, offset, solver, stack>>

engine_intern(key) ==
  /\ ops < limit
  /\ dirty' = intern(dirty, key)
  /\ engine_call("intern", <<>>, {})

engine_mark_dirty(id) ==
  /\ ops < limit
  /\ dirty' = mark_dirty(dirty, id)
  /\ engine_call("mark_dirty", <<>>, {id})

engine_add_dependency(from, to) ==
  /\ ops < limit
  /\ dirty' = add_dependency(dirty, from, to)
  /\ engine_call("add_dependency", <<>>, {})

engine_set_dependencies(from, to) ==
  /\ ops < limit
  /\ dirty' = set_dependencies(dirty, from, to)
  /\ engine_call("set_dependencies", <<>>, {})

\* A drain whose iterator is consumed to the end.
engine_drain ==
  /\ ops < limit
  /\ dirty' = drain(dirty)
  /\ last' = [Called("drain", <<>>, Ok) EXCEPT !.yielded = drain_order(dirty),
                                               !.closure = dirty.marks,
                                               !.before = Summary(last, nodes, dirty)]
  /\ ops' = ops + 1
  /\ UNCHANGED <<nodes, input_ids, scratch, kv, programs, heap, buf, offset, solver, stack, unmarked, limit>>

\* No program is needed to drive the engine.
DirtyLibraries == {{}}

InitDirty == New(DirtyLibraries, MaxDirtyOps)

NextDirty ==
  \/ \E key \in DirtyKeys : engine_intern(key)
  \/ \E id \in 1..Len(dirty.keys) : engine_mark_dirty(id)
  \/ \E from \in 1..Len(dirty.keys), to \in 1..Len(dirty.keys) : engine_add_dependency(from, to)
  \/ \E from \in 1..Len(dirty.keys), to \in SUBSET (1..Len(dirty.keys)) :
       engine_set_dependencies(from, to)
  \/ engine_drain

SpecDirty == InitDirty /\ [][NextDirty]_vars

\* A long-lived embedder of two-output nodes that read host state: enough
\* calls for the epoch of the seen-set to wrap.
InitStamp == New(HostLibraries, MaxStampOps)

NextStamp ==
  \/ \E t \in programs : Len(nodes) < MaxStampNodes /\ add_node(t)
  \/ \E key \in InvalidateKeys : invalidate(key)
  \/ run_all
  \/ \E node \in 0..Len(nodes) : run_node(node)

SpecStamp == InitStamp /\ [][NextStamp]_vars

(***************************************************************************)
(* execution_tape, format/leb128.rs.  A 64-bit integer (u64, or i64 in      *)
(* two's complement) is held as its ten groups of bits, least significant  *)
(* first: groups 1..9 are the 7-bit groups of bits 0..62, group 10 is bit  *)
(* 63.  A shift by 7 * i moves whole groups, so the shifts and masks of    *)
(* the readers and writers act on a word group by group.  A byte is a      *)
(* number in 0..255.                                                       *)
(***************************************************************************)
GroupMax(k) == IF k = 10 THEN 1 ELSE 127

Word(f) == AsSeq([k \in 1..10 |-> f[k]])

\* 0, and !0 (u64::MAX, or -1 as i64).
Zero64 == Word([k \in 1..10 |-> 0])
Ones64 == Word([k \in 1..10 |-> GroupMax(k)])

\* a | b on natural numbers.
RECURSIVE BitOr(_, _)
BitOr(a, b) ==
  IF a = 0 THEN b
  ELSE IF b = 0 THEN a
  ELSE (IF a % 2 = 1 \/ b % 2 = 1 THEN 1 ELSE 0) + 2 * BitOr(a \div 2, b \div 2)

Or64(v, w) ==
  <<BitOr(v[1], w[1]), BitOr(v[2], w[2]), BitOr(v[3], w[3]), BitOr(v[4], w[4]),
    BitOr(v[5], w[5]), BitOr(v[6], w[6]), BitOr(v[7], w[7]), BitOr(v[8], w[8]),
    BitOr(v[9], w[9]), BitOr(v[10], w[10])>>

\* u64::from(payload) << (7 * i) and i64::from(payload) << (7 * i), i in
\* 0..9: the bits shifted past bit 63 are lost.
Shl(payload, i) ==
  Word([k \in 1..10 |-> IF k = i + 1 THEN payload % (GroupMax(k) + 1) ELSE 0])

\* value >>= 7 on u64 (zero fill) and on i64 (sign fill).
Shr7(v) == Word([k \in 1..10 |-> IF k <= 8 THEN v[k + 1] ELSE IF k = 9 THEN v[10] ELSE 0])
Sar7(v) ==
  Word([k \in 1..10 |-> IF k <= 8 THEN v[k + 1]
                         ELSE IF k = 9 THEN (IF v[10] = 1 THEN 127 ELSE 0)
                         ELSE v[10]])

\* (!0_i64) << (7 * n), n in 1..9.
OnesFrom(n) == Word([k \in 1..10 |-> IF k > n THEN GroupMax(k) ELSE 0])

InvalidVarint == <<"Err", "InvalidVarint">>
UnexpectedEof == <<"Err", "UnexpectedEof">>
OkOf(v) == <<"Ok", v>>

\* What a reader leaves: its result and the offset.
Decoded(res, off) == [res |-> res, offset |-> off]

\* An offset that is left where it was.
advance_not(off) == off

\* *offset = offset.checked_add(1): the addition cannot overflow, the byte
\* at offset having been read from the slice.
advance(off) == off + 1

\* A tenth byte that is never refused.
overflows_u64_never(i, payload) == FALSE

overflows_u64(i, payload) == i = 9 /\ payload > 1

overflows_i64(i, payload) == i = 9 /\ payload # 0 /\ payload # 127

RECURSIVE read_uleb128_loop(_, _, _, _)
read_uleb128_loop(bytes, off, i, value) ==
  IF i = 10 THEN Decoded(InvalidVarint, off)
  ELSE IF off >= Len(bytes) THEN Decoded(UnexpectedEof, off)
  ELSE IF overflows_u64(i, bytes[off + 1] % 128) THEN Decoded(InvalidVarint, advance(off))
  ELSE IF bytes[off + 1] < 128
  THEN Decoded(OkOf(Or64(value, Shl(bytes[off + 1] % 128, i))), advance(off))
  ELSE read_uleb128_loop(bytes, advance(off), i + 1, Or64(value, Shl(bytes[off + 1] % 128, i)))

read_uleb128_u64(bytes, off) == read_uleb128_loop(bytes, off, 0, Zero64)

\* A reader that leaves the upper bits as they are.
sign_extend_never(value, n, b) == value

\* Sign extend if the sign bit of the last byte was set (shift = 7 * n).
sign_extend(value, n, b) ==
  IF 7 * n < 64 /\ (b % 128) >= 64 THEN Or64(value, OnesFrom(n)) ELSE value

\* After the loop: the last byte read must end the encoding.
read_sleb128_end(value, n, b, off) ==
  IF b >= 128 THEN Decoded(InvalidVarint, off)
  ELSE Decoded(OkOf(sign_extend(value, n, b)), off)

RECURSIVE read_sleb128_loop(_, _, _, _, _)
read_sleb128_loop(bytes, off, i, value, b) ==
  IF i = 10 THEN read_sleb128_end(value, i, b, off)
  ELSE IF off >= Len(bytes) THEN Decoded(UnexpectedEof, off)
  ELSE IF overflows_i64(i, bytes[off + 1] % 128) THEN Decoded(InvalidVarint, advance(off))
  ELSE IF bytes[off + 1] < 128
  THEN read_sleb128_end(Or64(value, Shl(bytes[off + 1] % 128, i)), i + 1, bytes[off + 1],
                        advance(off))
  ELSE read_sleb128_loop(bytes, advance(off), i + 1,
                         Or64(value, Shl(bytes[off + 1] % 128, i)), bytes[off + 1])

read_sleb128_i64(bytes, off) == read_sleb128_loop(bytes, off, 0, Zero64, 0)

\* The bytes write_uleb128_u64 pushes for value.
RECURSIVE write_uleb128_u64(_)
write_uleb128_u64(value) ==
  IF Shr7(value) # Zero64 THEN <<value[1] + 128>> \o write_uleb128_u64(Shr7(value))
  ELSE <<value[1]>>

\* The bytes write_sleb128_i64 pushes for value.
RECURSIVE write_sleb128_i64(_)
write_sleb128_i64(value) ==
  IF \/ Sar7(value) = Zero64 /\ value[1] < 64
     \/ Sar7(value) = Ones64 /\ value[1] >= 64
  THEN <<value[1]>>
  ELSE <<value[1] + 128>> \o write_sleb128_i64(Sar7(value))

\* The integers written: up to three low groups from LowGroups, the groups
\* above them all zeros or all ones, and i64::MIN and i64::MAX.
LowGroups == {0, 1, 63, 64, 127}

Filled(low, f) ==
  Word([k \in 1..10 |-> IF k <= Len(low) THEN low[k] ELSE f * GroupMax(k)])

I64Min == Filled(<<0, 0, 0, 0, 0, 0, 0, 0, 0, 1>>, 0)
I64Max == Filled(<<127, 127, 127, 127, 127, 127, 127, 127, 127, 0>>, 0)

Words ==
  {Filled(low, f) : low \in UNION {[1..n -> LowGroups] : n \in 0..3}, f \in {0, 1}}
    \cup {I64Min, I64Max}

\* The buffers read: every buffer of up to two bytes out of SomeBytes, and
\* the encodings of nine bytes with the continuation bit followed by any
\* tenth byte and, optionally, one more byte.
SomeBytes == {0, 1, 63, 64, 127, 128, 129, 192, 255}

Nine(b) == AsSeq([k \in 1..9 |-> b])

Encodings ==
  UNION {[1..n -> SomeBytes] : n \in 0..2}
    \cup {Nine(b) \o <<t>> : b \in {128, 255}, t \in 0..255}
    \cup {Nine(b) \o <<t, 0>> : b \in {128, 255}, t \in 0..255}

\* last.before names the call made before this one, without its result.
leb_call(op, args, res) ==
  /\ last' = [Called(op, args, res) EXCEPT
                !.before = Summary(Called(last.op, <<>>, Ok), nodes, dirty)]
  /\ ops' = ops + 1
  /\ UNCHANGED <<nodes, dirty, input_ids, scratch, kv, programs, unmarked, limit, heap,
                 solver, stack>>

\* The embedder fills the empty buffer with bytes of its own, the cursor at
\* their start.
leb_load(bytes) ==
  /\ ops < limit
  /\ buf = <<>>
  /\ buf' = AsSeq(bytes)
  /\ offset' = 0
  /\ leb_call("load", <<>>, Ok)

\* write_uleb128_u64(&mut buf, value); last.args holds the value and the
\* length of the buffer before the call.
leb_write_u(value) ==
  /\ ops < limit
  /\ Len(buf) <= MaxPrefix
  /\ buf' = buf \o write_uleb128_u64(value)
  /\ offset' = offset
  /\ leb_call("write_uleb128_u64", <<value, Len(buf)>>, Ok)

leb_write_s(value) ==
  /\ ops < limit
  /\ Len(buf) <= MaxPrefix
  /\ buf' = buf \o write_sleb128_i64(value)
  /\ offset' = offset
  /\ leb_call("write_sleb128_i64", <<value, Len(buf)>>, Ok)

\* read_uleb128_u64(&buf, &mut offset) with the cursor set to start.
leb_read_u(start) ==
  /\ ops < limit
  /\ LET read == read_uleb128_u64(buf, start)
     IN  /\ offset' = read.offset
         /\ leb_call("read_uleb128_u64", <<start>>, read.res)
  /\ buf' = buf

leb_read_s(start) ==
  /\ ops < limit
  /\ LET read == read_sleb128_i64(buf, start)
     IN  /\ offset' = read.offset
         /\ leb_call("read_sleb128_i64", <<start>>, read.res)
  /\ buf' = buf

InitLeb == New(DirtyLibraries, MaxLebOps)

\* The values a call may be made with in the current state.
Loadable == IF ops < limit /\ buf = <<>> THEN Encodings ELSE {}
Writable == IF ops < limit /\ Len(buf) <= MaxPrefix THEN Words ELSE {}

\* The offsets a caller may hand a reader: the offset is the caller's own
\* usize, inside the buffer, at its end or past it.
Starts == 0..(Len(buf) + 1)

NextLeb ==
  \/ \E bytes \in Loadable : leb_load(bytes)
  \/ \E value \in Writable : leb_write_u(value)
  \/ \E value \in Writable : leb_write_s(value)
  \/ \E start \in Starts : leb_read_u(start)
  \/ \E start \in Starts : leb_read_s(start)

SpecLeb == InitLeb /\ [][NextLeb]_vars

(***************************************************************************)
(* execution_tape, aggregates.rs.  heap is AggHeap::nodes; a handle is the *)
(* u32 of AggHandle, here a number in 0..(HandleLimit - 1), the last of    *)
(* them standing for u32::MAX.                                             *)
(***************************************************************************)
I64(n) == <<"I64", n>>
Agg(handle) == <<"Agg", handle>>

BadHandle == <<"Err", "BadHandle">>
WrongKind == <<"Err", "WrongKind">>
OutOfBounds == <<"Err", "OutOfBounds">>

Tuple(values) == [kind |-> "Tuple", type_id |-> 0, values |-> values]
Struct(type_id, values) == [kind |-> "Struct", type_id |-> type_id, values |-> values]
Array(elem_type_id, values) == [kind |-> "Array", type_id |-> elem_type_id, values |-> values]

\* push: the handle is the index of the new node, or u32::MAX when the
\* index does not fit u32.
push(h, node) ==
  [heap |-> Append(h, node),
   handle |-> IF Len(h) < HandleLimit THEN Len(h) ELSE HandleLimit - 1]

node_at(h, handle) == IF handle < Len(h) THEN OkOf(h[handle + 1]) ELSE BadHandle

\* values.get(index).cloned().ok_or(OutOfBounds) on a node of the kind
\* asked for.
get_of(h, kind, handle, index) ==
  IF node_at(h, handle) = BadHandle THEN BadHandle
  ELSE IF node_at(h, handle)[2].kind # kind THEN WrongKind
  ELSE IF index < Len(node_at(h, handle)[2].values)
  THEN OkOf(node_at(h, handle)[2].values[index + 1])
  ELSE OutOfBounds

\* Ok(values.len()) on a node of the kind asked for.
len_of(h, kind, handle) ==
  IF node_at(h, handle) = BadHandle THEN BadHandle
  ELSE IF node_at(h, handle)[2].kind # kind THEN WrongKind
  ELSE OkOf(Len(node_at(h, handle)[2].values))

tuple_get(h, tuple, index) == get_of(h, "Tuple", tuple, index)
tuple_len(h, tuple) == len_of(h, "Tuple", tuple)
struct_get(h, st, field_index) == get_of(h, "Struct", st, field_index)
struct_field_count(h, st) == len_of(h, "Struct", st)
array_get(h, arr, index) == get_of(h, "Array", arr, index)
array_len(h, arr) == len_of(h, "Array", arr)

agg_call(op, args, res) ==
  /\ last' = Called(op, args, res)
  /\ ops' = ops + 1
  /\ UNCHANGED <<nodes, dirty, input_ids, scratch, kv, programs, unmarked, limit, buf,
                 offset, solver, stack>>

\* tuple_new / struct_new / array_new: last.res holds the handle returned.
agg_new(op, node) ==
  /\ ops < limit
  /\ heap' = push(heap, node).heap
  /\ agg_call(op, <<node.values>>, OkOf(push(heap, node).handle))

agg_tuple_new(values) == agg_new("tuple_new", Tuple(values))
agg_struct_new(type_id, values) == agg_new("struct_new", Struct(type_id, values))
agg_array_new(elem_type_id, values) == agg_new("array_new", Array(elem_type_id, values))

\* The getters leave the heap as it is.
agg_read(op, args, res) ==
  /\ ops < limit
  /\ heap' = heap
  /\ agg_call(op, args, res)

agg_tuple_get(tuple, index) ==
  agg_read("tuple_get", <<tuple, index>>, tuple_get(heap, tuple, index))
agg_tuple_len(tuple) == agg_read("tuple_len", <<tuple>>, tuple_len(heap, tuple))
agg_struct_get(st, field_index) ==
  agg_read("struct_get", <<st, field_index>>, struct_get(heap, st, field_index))
agg_struct_field_count(st) ==
  agg_read("struct_field_count", <<st>>, struct_field_count(heap, st))
agg_array_get(arr, index) ==
  agg_read("array_get", <<arr, index>>, array_get(heap, arr, index))
agg_array_len(arr) == agg_read("array_len", <<arr>>, array_len(heap, arr))

\* The handles, values and value lists a caller passes: AggHandle's field is
\* public, so a caller can make a handle of any number.
Handles == 0..(HandleLimit - 1)
AggValues == {I64(1)} \cup {Agg(handle) : handle \in Handles}
AggLists == UNION {[1..n -> AggValues] : n \in 0..MaxAggLen}
AggIndices == 0..MaxAggLen
TypeIds == {7}

InitAgg == New(DirtyLibraries, MaxAggOps)

NextAgg ==
  \/ \E values \in AggLists : agg_tuple_new(AsSeq(values))
  \/ \E type_id \in TypeIds, values \in AggLists : agg_struct_new(type_id, AsSeq(values))
  \/ \E type_id \in TypeIds, values \in AggLists : agg_array_new(type_id, AsSeq(values))
  \/ \E handle \in Handles, index \in AggIndices : agg_tuple_get(handle, index)
  \/ \E handle \in Handles : agg_tuple_len(handle)
  \/ \E handle \in Handles, index \in AggIndices : agg_struct_get(handle, index)
  \/ \E handle \in Handles : agg_struct_field_count(handle)
  \/ \E handle \in Handles, index \in AggIndices : agg_array_get(handle, index)
  \/ \E handle \in Handles : agg_array_len(handle)

SpecAgg == InitAgg /\ [][NextAgg]_vars

(***************************************************************************)
(* Properties of run_all, run_node and run_node_internal.                  *)
(***************************************************************************)
IsRun(l) == l.op \in {"run_all", "run_node"}

\* The node at which the call l failed.
failing(l) == l.runs[Len(l.runs)].node

OwnsOutput(d, k, node) == d.keys[k][1] = "TapeOutput" /\ d.keys[k][2] = node

\* The key an input binding is read under.
binding_key(n, name) ==
  IF n.inputs[name][1] = "External" THEN Input(name)
  ELSE TapeOutput(n.inputs[name][2], n.inputs[name][3])

\* The ids of what a run of node reads: the binding keys of its arguments and
\* the reads its host calls record.
ReadIds(ns, d, node) ==
  {intern_id(d, binding_key(ns[node + 1], name)) : name \in Range(ns[node + 1].input_names)}
    \cup {intern_id(d, map_key(h.rec[2])) :
            h \in {x \in Range(ns[node + 1].program.host) : x.rec[1] = "read"}}

\* run_all has returned Ok, and no add_node, connect or invalidation has been
\* called since.
CleanAfterRunAll ==
  \/ last.op = "run_all" /\ last.res = Ok
  \/ last.op = "set_input_value" /\ last.before.op = "run_all" /\ last.before.res = Ok

\* C1: when run_all has returned Ok and the next run_all follows with no
\* add_node, connect or invalidation in between, the second call executes no
\* node: every node's run count and outputs are as before.
C1_SecondRunAllExecutesNothing ==
  [][(CleanAfterRunAll /\ last'.op = "run_all")
       => /\ last'.runs = <<>>
          /\ Len(nodes') = Len(nodes)
          /\ \A n \in 1..Len(nodes) :
               /\ nodes'[n].run_count = nodes[n].run_count
               /\ nodes'[n].outputs = nodes[n].outputs]_vars

C1_Witness ==
  /\ last.op = "run_all" /\ last.res = Ok /\ last.runs = <<>>
  /\ last.before.op = "run_all" /\ last.before.res = Ok /\ last.before.ran # {}

C3_RunAllAfterRunNodeRunsTheRest ==
  (last.op = "run_all" /\ last.before.op = "run_node" /\ last.before.res = Ok)
    => /\ Range(last.plan) = last.before.pending
       /\ attempted(last) \cap last.before.ran = {}

\* C4 as stated: on every return path, Err included, run_node has marked
\* dirty again every key it drained that lies outside the target's closure.
C4_RestoredOnEveryReturn ==
  last.op = "run_node" =>
    \A k \in Range(last.yielded) \ last.closure : k \in dirty.marks

\* C5: run_node(target) executes a node only if at least one of its output
\* keys is both yielded by the drain and inside the dependency closure of the
\* target's output keys, computed over the dependency edges before the drain;
\* a dirty node with no output key in that closure is not executed.
C5_RunNodeExecutesOnlyClosure ==
  [][(last'.op = "run_node" /\ NodeExists(nodes, last'.args[1]))
       => \A i \in 1..Len(last'.runs) :
            \E k \in affected(dirty) \cap node_closure(nodes, dirty, last'.args[1]) :
              OwnsOutput(dirty, k, last'.runs[i].node)]_vars

C5_Witness ==
  /\ last.op = "run_node" /\ last.res = Ok /\ last.runs # <<>>
  /\ \E k \in Range(scratch.restore) :
       \E n \in 0..(Len(nodes) - 1) : OwnsOutput(dirty, k, n) /\ n \notin attempted(last)

\* C6: run_all and run_node execute the scheduled nodes serially in scheduled
\* order and stop at the first failure: the failing node's error is the
\* result, no node scheduled after it is executed, and the nodes executed
\* before it keep their committed outputs and incremented run counts.
C6_FailFast ==
  [][IsRun(last') =>
       /\ Len(last'.runs) <= Len(last'.plan)
       /\ \A i \in 1..Len(last'.runs) :
            /\ last'.runs[i].node = last'.plan[i]
            /\ i < Len(last'.runs) => last'.runs[i].res = Ok
            /\ last'.runs[i].res = Ok =>
                 /\ nodes'[last'.plan[i] + 1].run_count = nodes[last'.plan[i] + 1].run_count + 1
                 /\ DOMAIN nodes'[last'.plan[i] + 1].outputs
                      = Range(nodes[last'.plan[i] + 1].output_names)
            /\ last'.runs[i].res # Ok => last'.res = last'.runs[i].res
       /\ last'.res = Ok =>
            /\ Len(last'.runs) = Len(last'.plan)
            /\ \A i \in 1..Len(last'.runs) : last'.runs[i].res = Ok
       /\ \A j \in (Len(last'.runs) + 1)..Len(last'.plan) :
            nodes'[last'.plan[j] + 1] = nodes[last'.plan[j] + 1]]_vars

C6_Witness ==
  /\ IsRun(last) /\ last.res # Ok
  /\ Len(last.runs) >= 2
  /\ Len(last.plan) > Len(last.runs)
  /\ nodes[last.plan[1] + 1].run_count = 1
  /\ nodes[last.plan[Len(last.plan)] + 1].run_count = 0

\* C7: a node whose run failed in a run_all is not executed by a later
\* run_all unless, in between, one of its output keys or a key these
\* transitively depend on has been marked dirty again.
C7_FailedNodeNotRetried ==
  [][last'.op = "run_all" =>
       \A i \in 1..Len(last'.runs) : last'.runs[i].node \notin unmarked]_vars

C7_Witness ==
  /\ last.op = "run_all" /\ last.res = Ok /\ last.runs # <<>>
  /\ unmarked # {}

\* C8 as stated: after run_all has failed, every node that was scheduled
\* behind the failing node is still dirty, so that the next run_all executes
\* it without a new invalidation.
C8_PendingWorkStaysDirty ==
  (last.op = "run_all" /\ last.res # Ok) =>
    \A j \in (Len(last.runs) + 1)..Len(last.plan) :
      output_ids(dirty, last.plan[j], nodes[last.plan[j] + 1].output_names)
        \cap affected(dirty) # {}

\* C9: the node at which a run fails, whatever the failure, keeps its
\* outputs, its last access log and its run count, and its output keys keep
\* their dependency sets.
C9_FailureChangesNothing ==
  [][(IsRun(last') /\ last'.res # Ok /\ last'.runs # <<>>)
       => /\ nodes'[failing(last') + 1].outputs = nodes[failing(last') + 1].outputs
          /\ nodes'[failing(last') + 1].last_access = nodes[failing(last') + 1].last_access
          /\ nodes'[failing(last') + 1].run_count = nodes[failing(last') + 1].run_count
          /\ \A out \in output_ids(dirty, failing(last'),
                                   nodes[failing(last') + 1].output_names) :
               dependencies(dirty', out) = dependencies(dirty, out)]_vars

C9_Witness ==
  /\ IsRun(last) /\ last.res # Ok /\ last.runs # <<>>
  /\ nodes[failing(last) + 1].run_count > 0
  /\ nodes[failing(last) + 1].outputs # EmptyMap
  /\ \E out \in output_ids(dirty, failing(last), nodes[failing(last) + 1].output_names) :
       dependencies(dirty, out) # {}

\* The input name `name` of n resolves to a value.
Resolvable(ns, n, name) ==
  /\ name \in DOMAIN n.inputs
  /\ n.inputs[name][1] = "FromNode" =>
       /\ NodeExists(ns, n.inputs[name][2])
       /\ n.inputs[name][3] \in DOMAIN ns[n.inputs[name][2] + 1].outputs

\* The <<upstream, output>> the argument lookup of node stops at: the first
\* input, in input-name order, bound to an output name that the existing
\* upstream node's output map lacks.
MissingUpstream(ns, node) ==
  LET n == ns[node + 1] IN
  {<<n.inputs[n.input_names[i]][2], n.inputs[n.input_names[i]][3]>> :
     i \in {j \in 1..Len(n.input_names) :
              /\ \A h \in 1..(j - 1) : Resolvable(ns, n, n.input_names[h])
              /\ n.input_names[j] \in DOMAIN n.inputs
              /\ n.inputs[n.input_names[j]][1] = "FromNode"
              /\ ~Resolvable(ns, n, n.input_names[j])
              /\ NodeExists(ns, n.inputs[n.input_names[j]][2])}}

C12_BadNodeIdChangesNothing ==
  [][(last'.op = "run_node" /\ ~NodeExists(nodes, last'.args[1]))
       => /\ last'.res = BadNodeId
          /\ last'.runs = <<>>
          /\ dirty' = dirty
          /\ nodes' = nodes]_vars

C12_Witness ==
  /\ last.op = "run_node" /\ last.res = BadNodeId /\ last.runs = <<>>
  /\ ~NodeExists(nodes, last.args[1])
  /\ dirty.marks # {}
  /\ dirty.edges # {}

\* The ids of the interned keys.
Ids(d) == 1..Len(d.keys)

CycleError == <<"Err", "Cycle">>

\* The calls that would close a cycle: the edge from -> t where from is t
\* or is reachable from t.
Closing(d) == {<<from, t>> \in Ids(d) \X Ids(d) : from \in dep_closure(d, {t})}

C19_DependencyGraphAcyclic ==
  \A id \in Ids(dirty) : id \notin dep_closure(dirty, dependencies(dirty, id))

\* Two nodes are bound to each other's outputs, or a node to its own, and a
\* run has taken place since.
C19_Witness ==
  /\ IsRun(last) /\ last.runs # <<>>
  /\ dirty.edges # {}
  /\ \E a \in 0..(Len(nodes) - 1), b \in 0..(Len(nodes) - 1) :
       /\ a # b
       /\ "a" \in DOMAIN nodes[a + 1].inputs /\ "a" \in DOMAIN nodes[b + 1].inputs
       /\ nodes[a + 1].inputs["a"][1] = "FromNode" /\ nodes[a + 1].inputs["a"][2] = b
       /\ nodes[b + 1].inputs["a"][1] = "FromNode" /\ nodes[b + 1].inputs["a"][2] = a

InternKeys ==
  {Input("a"), TapeOutput(0, "ret0"), TapeOutput(1, "ret1"),
   HostState(1, 1), HostState(1, 2), OpaqueHost(1)}

\* C20: interning a key twice gives the same id and changes nothing the
\* second time, different keys have different ids, and no call changes or
\* removes an id once assigned.
C20_Interning ==
  [][/\ Len(dirty'.keys) >= Len(dirty.keys)
     /\ SubSeq(dirty'.keys, 1, Len(dirty.keys)) = dirty.keys
     /\ Cardinality(Range(dirty'.keys)) = Len(dirty'.keys)
     /\ \A k \in InternKeys :
          /\ intern_id(intern(dirty', k), k) = intern_id(dirty', k)
          /\ intern(intern(dirty', k), k) = intern(dirty', k)
          /\ intern(dirty', k).keys[intern_id(dirty', k)] = k]_vars

C20_Witness ==
  /\ last.op = "invalidate" /\ last.before.op = "invalidate"
  /\ Len(dirty.keys) >= 3
  /\ \E i \in Ids(dirty) : dirty.keys[i] = HostState(1, 1)

\* C13 as stated: whatever the number of declared outputs of its entry
\* function, a node that has never run is executed exactly once by the next
\* run_all that returns Ok, which takes its run count from 0 to 1.
C13_AddNodeForcesFirstRun ==
  [][(last'.op = "run_all" /\ last'.res = Ok)
       => \A n \in 1..Len(nodes) :
            nodes[n].run_count = 0 =>
              /\ nodes'[n].run_count = 1
              /\ Cardinality({i \in 1..Len(last'.runs) : last'.runs[i].node = n - 1}) = 1]_vars

\* The name the argument lookup of node stops at for want of a binding: the
\* first input name without a binding, every name before it resolving to a
\* value.
FirstUnbound(ns, node) ==
  LET n == ns[node + 1] IN
  {n.input_names[j] :
     j \in {i \in 1..Len(n.input_names) :
              /\ n.input_names[i] \notin DOMAIN n.inputs
              /\ \A h \in 1..(i - 1) : Resolvable(ns, n, n.input_names[h])}}

\* The argument reads of a node all of whose inputs are bound, in input-name
\* order.
ArgumentReads(n) ==
  AsSeq([j \in 1..Len(n.input_names) |-> Read(binding_key(n, n.input_names[j]))])

Recomputed(ns, kvs, node) ==
  map_outputs(ns[node + 1],
              vm_run(ns[node + 1].program, build_args(ns, node, 1, <<>>, <<>>).args, kvs).out,
              1, EmptyMap)

\* C14 as stated: in a graph with no dirty key, set_input_value followed by
\* invalidate_input of the same name and a run_all that returns Ok executes
\* exactly once every node with an output key that transitively depends on
\* the Input key, executes no other node, and leaves each of these nodes
\* with the outputs its program computes from the values its bindings now
\* resolve to.
C14_InputInvalidationPropagates ==
  [][(/\ last.op = "invalidate_input" /\ last.before.op = "set_input_value"
      /\ HasKey(dirty, Input("a"))
      /\ dirty.marks = {intern_id(dirty, Input("a"))}
      /\ last'.op = "run_all" /\ last'.res = Ok)
       => /\ \A n \in 0..(Len(nodes) - 1) :
               Cardinality({i \in 1..Len(last'.runs) : last'.runs[i].node = n})
                 = IF n \in owners(nodes, dirty, affected(dirty)) THEN 1 ELSE 0
          /\ \A n \in owners(nodes, dirty, affected(dirty)) :
               nodes'[n + 1].outputs = Recomputed(nodes', kv, n)]_vars

\* The keys the last successful run of node logged a read of.
LoggedReads(n) == {n.last_access[i][2] : i \in {j \in 1..Len(n.last_access) : n.last_access[j][1] = "Read"}}

\* C15: when the graph is clean (the last call of the graph was a run_all
\* that returned Ok) and a host key that no node has logged a read of is
\* invalidated, the next run_all executes no node and returns Ok, whatever
\* has become of the host state behind the keys that were read.
C15_PreciseKeysDoNotOverInvalidate ==
  [][(/\ last.op = "invalidate" /\ last.args[1] \in HostKeys
      /\ last.before.op = "run_all" /\ last.before.res = Ok
      /\ \A n \in 1..Len(nodes) : last.args[1] \notin LoggedReads(nodes[n])
      /\ last'.op = "run_all")
       => /\ last'.runs = <<>>
          /\ last'.res = Ok
          /\ nodes' = nodes]_vars

\* HostState(1, 2) was invalidated after kv[1] had changed under a node that
\* read HostState(1, 1), and the run_all that followed executed nothing.
C15_Witness ==
  /\ last.op = "run_all" /\ last.runs = <<>> /\ last.before.op = "invalidate"
  /\ HasKey(dirty, HostState(1, 2))
  /\ \E n \in 1..Len(nodes) :
       /\ nodes[n].run_count = 1
       /\ HostState(1, 1) \in LoggedReads(nodes[n])
       /\ nodes[n].outputs # Recomputed(nodes, kv, n - 1)

\* The keys the host calls of a program report a read of.
HostReads(program) ==
  {map_key(program.host[i].rec[2]) :
     i \in {j \in 1..Len(program.host) : program.host[j].rec[1] = "read"}}

\* C16 as stated: when a key that a host call of a node's last successful
\* run reported a read of is invalidated, by invalidate_tape_key or by
\* invalidate of the owned key, the run_all that follows and returns Ok
\* executes that node.
C16_HostReadsAreDependencies ==
  [][(/\ last.op \in {"invalidate", "invalidate_input"}
      /\ last'.op = "run_all" /\ last'.res = Ok)
       => \A n \in 1..Len(nodes) :
            (nodes[n].run_count > 0 /\ last.args[1] \in HostReads(nodes[n].program))
              => (n - 1) \in attempted(last')]_vars

\* The existing nodes an input of node n is connected to.
Upstreams(ns, n) ==
  {ns[n + 1].inputs[name][2] :
     name \in {x \in DOMAIN ns[n + 1].inputs : ns[n + 1].inputs[x][1] = "FromNode"}}
    \cap (0..(Len(ns) - 1))

RECURSIVE up_from(_, _, _)
up_from(ns, S, k) ==
  IF k = 0 THEN S ELSE up_from(ns, S \cup UNION {Upstreams(ns, m) : m \in S}, k - 1)

\* No node is connected, directly or through other nodes, to itself.
AcyclicWiring(ns) ==
  \A n \in 0..(Len(ns) - 1) : n \notin up_from(ns, Upstreams(ns, n), Len(ns))

\* C17 as stated: when the wiring is acyclic and a run_all or run_node
\* executes both A and B, B having an input connected to an output of A,
\* then A is executed before B.
C17_UpstreamRunsBeforeDownstream ==
  [][(IsRun(last') /\ AcyclicWiring(nodes))
       => \A i \in 1..Len(last'.runs), j \in 1..Len(last'.runs) :
            (/\ NodeExists(nodes, last'.runs[i].node)
             /\ last'.runs[j].node \in Upstreams(nodes, last'.runs[i].node))
              => j < i]_vars

\* An embedder that keeps to the invalidation discipline on chains of
\* identity nodes: it invalidates the input name right after it rebinds an
\* input, connects only where the wiring stays acyclic, and makes no further
\* call once a run has failed.
InitSound == New(ChainLibraries, MaxSoundOps)

Owing == last.op = "set_input_value"
RunFailed == last.op \in {"run_all", "run_node"} /\ last.res # Ok
Disciplined == ~Owing /\ ~RunFailed

NextSound ==
  \/ \E t \in programs : Disciplined /\ Len(nodes) < MaxChainNodes /\ add_node(t)
  \/ \E node \in 0..(Len(nodes) - 1), name \in InputNames, value \in Values :
       Disciplined /\ set_input_value(node, name, value)
  \/ \E from \in 0..(Len(nodes) - 1), to \in 0..(Len(nodes) - 1), input \in InputNames :
       Disciplined /\ connect(from, "ret0", to, input) /\ AcyclicWiring(nodes')
  \/ \E name \in InputNames : Owing /\ invalidate_input(name)
  \/ Disciplined /\ run_all

SpecSound == InitSound /\ [][NextSound]_vars

\* The same embedder, which also runs single nodes.
InitTarget == New(ChainLibraries, MaxTargetOps)

NextTarget ==
  \/ \E t \in programs : Disciplined /\ Len(nodes) < MaxChainNodes /\ add_node(t)
  \/ \E node \in 0..(Len(nodes) - 1), name \in InputNames, value \in Values :
       Disciplined /\ set_input_value(node, name, value)
  \/ \E from \in 0..(Len(nodes) - 1), to \in 0..(Len(nodes) - 1), input \in InputNames :
       Disciplined /\ connect(from, "ret0", to, input) /\ AcyclicWiring(nodes')
  \/ \E name \in InputNames : Owing /\ invalidate_input(name)
  \/ Disciplined /\ run_all
  \/ \E node \in 0..(Len(nodes) - 1) : Disciplined /\ run_node(node)

SpecTarget == InitTarget /\ [][NextTarget]_vars

\* An embedder with nodes of one argument and two outputs next to identity
\* nodes, wired through ret0.
ProgPair == [kind |-> "pure", rets |-> 2, host |-> <<>>]
Pair == [program |-> ProgPair, input_names |-> <<"a">>]

PairLibraries == {{Pair, Ident}}

InitPair == New(PairLibraries, MaxPairOps)

NextPair ==
  \/ \E t \in programs : Len(nodes) < MaxChainNodes /\ add_node(t)
  \/ \E node \in 0..(Len(nodes) - 1), name \in InputNames, value \in Values :
       set_input_value(node, name, value)
  \/ \E from \in 0..(Len(nodes) - 1), to \in 0..(Len(nodes) - 1), input \in InputNames :
       connect(from, "ret0", to, input)
  \/ run_all

SpecPair == InitPair /\ [][NextPair]_vars

\* An embedder with nodes whose host call records a write of HostState(1, 1)
\* next to nodes whose host call records a read of it.
ProgWriter ==
  [kind |-> "pure", rets |-> 1,
   host |-> <<[sym |-> "kv.put", key |-> 1, rec |-> <<"write", <<"HostStateRef", 1, 1>>>>]>>]
Writer == [program |-> ProgWriter, input_names |-> <<>>]

WriteLibraries == {{KvPair, Writer}}

InitWrite == New(WriteLibraries, MaxWriteOps)

NextWrite ==
  \/ \E t \in programs : Len(nodes) < MaxChainNodes /\ add_node(t)
  \/ \E from \in 0..(Len(nodes) - 1), to \in 0..(Len(nodes) - 1), input \in InputNames :
       connect(from, "ret0", to, input)
  \/ \E key \in InvalidateKeys : invalidate(key)
  \/ \E name \in InputNames : invalidate_input(name)
  \/ \E ref \in {<<"HostStateRef", 1, 1>>, <<"InputRef", "a">>} : invalidate_tape_key(ref)
  \/ \E node \in 0..(Len(nodes) - 1), name \in InputNames, value \in Values :
       set_input_value(node, name, value)
  \/ run_all
  \/ \E node \in 0..Len(nodes) : run_node(node)

SpecWrite == InitWrite /\ [][NextWrite]_vars

\* An embedder with identity nodes fed by nodes that read host state only,
\* which rebinds inputs and invalidates the input name.
GlobalLibraries == {{KvPair, Ident}}

InitGlobal == New(GlobalLibraries, MaxGlobalOps)

NextGlobal ==
  \/ \E t \in programs : Len(nodes) < MaxChainNodes /\ add_node(t)
  \/ \E node \in 0..(Len(nodes) - 1), name \in InputNames, value \in Values :
       set_input_value(node, name, value)
  \/ \E from \in 0..(Len(nodes) - 1), to \in 0..(Len(nodes) - 1), input \in InputNames :
       connect(from, "ret0", to, input)
  \/ \E name \in InputNames : invalidate_input(name)
  \/ run_all

SpecGlobal == InitGlobal /\ [][NextGlobal]_vars

(***************************************************************************)
(* execution_tape, analysis/dataflow.rs.  solver holds the locals of one   *)
(* call of solve_forward or solve_backward: the blocks and flags it was    *)
(* given, in_states, out_states and the worklist; a step of the model is   *)
(* one iteration of the solver's `while let Some(b_idx) = work.pop_front()`.*)
(* A state of the analysis is a set of registers; the caller's meet is     *)
(* union or intersection and its transfer of block b is                    *)
(* gen[b] \cup (state \ kill[b]), both monotone.  Block indices are 0-based.*)
(***************************************************************************)
meet_into(meet, acc, incoming) ==
  IF meet = "union" THEN acc \cup incoming ELSE acc \cap incoming

transfer_block(blocks, b_idx, state) ==
  blocks[b_idx + 1].gen \cup (state \ blocks[b_idx + 1].kill)

\* reachable.get(b).copied().unwrap_or(false)
flagged(reachable, b) == b < Len(reachable) /\ reachable[b + 1]

\* A propagation that puts the successor on the worklist whether or not its
\* OUT changed.
propagate_always(s, out, succ) ==
  IF ~flagged(s.reachable, succ) THEN s
  ELSE [s EXCEPT !.in_states[succ + 1] = meet_into(s.meet, @, out),
                 !.out_states[succ + 1] =
                   transfer_block(s.blocks, succ, meet_into(s.meet, s.in_states[succ + 1], out)),
                 !.work = Append(@, succ)]

\* solve_forward, the body of `for succ in ...`: meet OUT of the block into
\* IN of succ; when IN changed recompute OUT, and when OUT changed push succ.
propagate(s, out, succ) ==
  IF ~flagged(s.reachable, succ) THEN s
  ELSE IF meet_into(s.meet, s.in_states[succ + 1], out) = s.in_states[succ + 1] THEN s
  ELSE IF transfer_block(s.blocks, succ, meet_into(s.meet, s.in_states[succ + 1], out))
            = s.out_states[succ + 1]
  THEN [s EXCEPT !.in_states[succ + 1] = meet_into(s.meet, @, out)]
  ELSE [s EXCEPT !.in_states[succ + 1] = meet_into(s.meet, @, out),
                 !.out_states[succ + 1] =
                   transfer_block(s.blocks, succ, meet_into(s.meet, s.in_states[succ + 1], out)),
                 !.work = Append(@, succ)]

RECURSIVE propagate_all(_, _, _, _)
propagate_all(s, out, succs, i) ==
  IF i > Len(succs) THEN s
  ELSE propagate_all(propagate(s, out, succs[i]), out, succs, i + 1)

\* One iteration of the loop of solve_forward, the worklist not empty.
forward_iteration(s) ==
  IF ~flagged(s.reachable, Head(s.work)) THEN [s EXCEPT !.work = Tail(@)]
  ELSE propagate_all([s EXCEPT !.work = Tail(@)], s.out_states[Head(s.work) + 1],
                     s.blocks[Head(s.work) + 1].succs, 1)

Bottoms(n, bottom) == AsSeq([i \in 1..n |-> bottom])

\* solve_forward up to its loop.
solve_forward_seeded(blocks, reachable, entry, bottom, meet) ==
  [dir |-> "forward", blocks |-> blocks, reachable |-> reachable, meet |-> meet,
   bottom |-> bottom,
   in_states |-> IF blocks # <<>> /\ flagged(reachable, 0)
                 THEN [Bottoms(Len(blocks), bottom) EXCEPT ![1] = entry]
                 ELSE Bottoms(Len(blocks), bottom),
   out_states |-> IF blocks # <<>> /\ flagged(reachable, 0)
                  THEN [Bottoms(Len(blocks), bottom) EXCEPT ![1] = transfer_block(blocks, 0, entry)]
                  ELSE Bottoms(Len(blocks), bottom),
   work |-> IF blocks # <<>> /\ flagged(reachable, 0) THEN <<0>> ELSE <<>>,
   done |-> FALSE]

\* preds[b]: the blocks that list b among their successors, in block order.
RECURSIVE times(_, _)
times(x, n) == IF n = 0 THEN <<>> ELSE <<x>> \o times(x, n - 1)

\* preds[b]: the blocks that list b among their successors, in block order,
\* once for every listing.
RECURSIVE preds(_, _, _)
preds(blocks, b, i) ==
  IF i > Len(blocks) THEN <<>>
  ELSE times(i - 1, Len(SelectSeq(blocks[i].succs, LAMBDA succ : succ = b)))
         \o preds(blocks, b, i + 1)

\* OUT[b]: bottom met with IN of every flagged successor, in order.
RECURSIVE meet_succs(_, _, _, _)
meet_succs(s, acc, succs, i) ==
  IF i > Len(succs) THEN acc
  ELSE meet_succs(s, IF flagged(s.reachable, succs[i])
                     THEN meet_into(s.meet, acc, s.in_states[succs[i] + 1]) ELSE acc,
                  succs, i + 1)

\* A backward iteration that revisits the predecessors after every visit.
revisit_always(s, b_idx, new_out, new_in) ==
  [s EXCEPT !.out_states[b_idx + 1] = new_out,
            !.in_states[b_idx + 1] = new_in,
            !.work = @ \o preds(s.blocks, b_idx, 1)]

\* solve_backward, after new_out and new_in were computed: store what
\* changed and revisit the predecessors when something did.
revisit(s, b_idx, new_out, new_in) ==
  [s EXCEPT !.out_states[b_idx + 1] = new_out,
            !.in_states[b_idx + 1] = new_in,
            !.work = IF new_out # s.out_states[b_idx + 1] \/ new_in # s.in_states[b_idx + 1]
                     THEN @ \o preds(s.blocks, b_idx, 1) ELSE @]

backward_visit(s, b_idx, new_out) ==
  revisit(s, b_idx, new_out, transfer_block(s.blocks, b_idx, new_out))

\* One iteration of the loop of solve_backward, the worklist not empty.
backward_iteration(s) ==
  IF ~flagged(s.reachable, Head(s.work)) THEN [s EXCEPT !.work = Tail(@)]
  ELSE backward_visit([s EXCEPT !.work = Tail(@)], Head(s.work),
                      meet_succs(s, s.bottom, s.blocks[Head(s.work) + 1].succs, 1))

\* The flagged blocks among the first n, in order.
RECURSIVE flagged_blocks(_, _, _)
flagged_blocks(reachable, n, i) ==
  IF i >= n \/ i >= Len(reachable) THEN <<>>
  ELSE (IF reachable[i + 1] THEN <<i>> ELSE <<>>) \o flagged_blocks(reachable, n, i + 1)

\* solve_backward up to its loop.
solve_backward_seeded(blocks, reachable, bottom, meet) ==
  [dir |-> "backward", blocks |-> blocks, reachable |-> reachable, meet |-> meet,
   bottom |-> bottom,
   in_states |-> Bottoms(Len(blocks), bottom),
   out_states |-> Bottoms(Len(blocks), bottom),
   work |-> flagged_blocks(reachable, Len(blocks), 0),
   done |-> FALSE]

flow_frame ==
  UNCHANGED <<nodes, dirty, input_ids, scratch, kv, programs, unmarked, limit, heap, buf,
              offset, stack>>

\* A call of solve_forward reaches its loop.
solve_forward(blocks, reachable, entry, bottom, meet) ==
  /\ ops < limit
  /\ solver.dir = "none" \/ solver.done
  /\ solver' = solve_forward_seeded(blocks, reachable, entry, bottom, meet)
  /\ last' = Called("solve_forward", <<entry>>, <<"Running">>)
  /\ ops' = ops + 1
  /\ flow_frame

\* A call of solve_backward reaches its loop.
solve_backward(blocks, reachable, bottom, meet) ==
  /\ ops < limit
  /\ solver.dir = "none" \/ solver.done
  /\ solver' = solve_backward_seeded(blocks, reachable, bottom, meet)
  /\ last' = Called("solve_backward", <<>>, <<"Running">>)
  /\ ops' = ops + 1
  /\ flow_frame

\* The solver pops a block and handles it.
solve_iteration ==
  /\ solver.dir \in {"forward", "backward"}
  /\ ~solver.done
  /\ solver.work # <<>>
  /\ solver' = IF solver.dir = "forward" THEN forward_iteration(solver)
                ELSE backward_iteration(solver)
  /\ UNCHANGED <<last, ops>>
  /\ flow_frame

\* The worklist is empty: the solver returns (in_states, out_states).
solve_return ==
  /\ solver.dir \in {"forward", "backward"}
  /\ ~solver.done
  /\ solver.work = <<>>
  /\ solver' = [solver EXCEPT !.done = TRUE]
  /\ last' = [last EXCEPT !.res = Ok]
  /\ UNCHANGED ops
  /\ flow_frame

\* The problems handed to the solvers: every CFG of up to MaxBlocks blocks
\* with up to two successors a block, every flagging, and the monotone
\* analyses over the sets of the registers in FlowRegs.
FlowRegs == {1}
FlowStates == SUBSET FlowRegs
BlockIds(n) == 0..(n - 1)
SuccLists(n) == UNION {[1..k -> BlockIds(n)] : k \in 0..2}
FlowBlock(succs, gen, kill) == [succs |-> succs, gen |-> gen, kill |-> kill, instrs |-> <<>>]
FlowBlocks(n) ==
  {FlowBlock(AsSeq(succs), gen, kill) :
     succs \in SuccLists(n), gen \in FlowStates, kill \in FlowStates}
Cfgs == UNION {[1..n -> FlowBlocks(n)] : n \in 0..MaxBlocks}
Flaggings(n) == [1..n -> BOOLEAN]

InitFlow == New(DirtyLibraries, MaxFlowOps)

\* The CFGs a caller can hand over now: none while a solver is running.
Solvable == IF ops < limit /\ (solver.dir = "none" \/ solver.done) THEN Cfgs ELSE {}

NextFlow ==
  \/ \E blocks \in Solvable, entry \in FlowStates, bottom \in FlowStates,
        meet \in {"union", "inter"} :
       \E reachable \in Flaggings(Len(blocks)) :
         solve_forward(AsSeq(blocks), AsSeq(reachable), entry, bottom, meet)
  \/ \E blocks \in Solvable, bottom \in FlowStates, meet \in {"union", "inter"} :
       \E reachable \in Flaggings(Len(blocks)) :
         solve_backward(AsSeq(blocks), AsSeq(reachable), bottom, meet)
  \/ solve_iteration
  \/ solve_return

SpecFlow == InitFlow /\ [][NextFlow]_vars

\* The caller of a solver waits for it: the solver keeps taking steps.
SpecFlowFair == SpecFlow /\ WF_vars(solve_iteration) /\ WF_vars(solve_return)

(***************************************************************************)
(* execution_tape, analysis/liveness.rs.  An instruction is the pair of    *)
(* the registers it reads and the registers it writes; a block carries the *)
(* instructions decoded[instr_start..instr_end].                           *)
(***************************************************************************)
\* An instruction handled with its writes entered into DEF before its reads
\* are looked at.
use_def_writes_first(acc, instr) ==
  [use |-> acc.use \cup {r \in instr.reads : r # 0 /\ r \notin acc.def
                                              /\ r \notin instr.writes},
   def |-> acc.def \cup {w \in instr.writes : w # 0}]

\* compute_use_def, one instruction: the reads not yet defined in the block
\* enter USE, then the writes enter DEF; register 0 is skipped.
use_def_instr(acc, instr) ==
  [use |-> acc.use \cup {r \in instr.reads : r # 0 /\ r \notin acc.def},
   def |-> acc.def \cup {w \in instr.writes : w # 0}]

RECURSIVE use_def_block(_, _, _)
use_def_block(acc, instrs, i) ==
  IF i > Len(instrs) THEN acc
  ELSE use_def_block(use_def_instr(acc, instrs[i]), instrs, i + 1)

\* compute_use_def: the blocks with gen = USE and kill = DEF.
compute_use_def(blocks) ==
  AsSeq([b \in 1..Len(blocks) |->
    [succs |-> blocks[b].succs,
     gen |-> use_def_block([use |-> {}, def |-> {}], blocks[b].instrs, 1).use,
     kill |-> use_def_block([use |-> {}, def |-> {}], blocks[b].instrs, 1).def,
     instrs |-> blocks[b].instrs]])

\* compute_liveness reaches the loop of solve_backward: bottom is the empty
\* set, the meet is union_with and the transfer is USE \cup (OUT \ DEF).
compute_liveness(blocks, reachable) ==
  /\ ops < limit
  /\ solver.dir = "none" \/ solver.done
  /\ solver' = solve_backward_seeded(compute_use_def(blocks), reachable, {}, "union")
  /\ last' = Called("compute_liveness", <<>>, <<"Running">>)
  /\ ops' = ops + 1
  /\ flow_frame

Instr(reads, writes) == [reads |-> reads, writes |-> writes]
Instrs == {Instr({1}, {2}), Instr({0, 2}, {0, 1}), Instr({1}, {1})}
InstrLists == UNION {[1..k -> Instrs] : k \in 0..2}
LiveBlocks(n) ==
  {[succs |-> AsSeq(succs), gen |-> {}, kill |-> {}, instrs |-> AsSeq(instrs)] :
     succs \in SuccLists(n), instrs \in InstrLists}
LiveCfgs == UNION {[1..n -> LiveBlocks(n)] : n \in 0..MaxBlocks}
Analysable == IF ops < limit /\ (solver.dir = "none" \/ solver.done) THEN LiveCfgs ELSE {}

InitLive == New(DirtyLibraries, MaxLiveOps)

NextLive ==
  \/ \E blocks \in Analysable :
       \E reachable \in Flaggings(Len(blocks)) :
         compute_liveness(AsSeq(blocks), AsSeq(reachable))
  \/ solve_iteration
  \/ solve_return

SpecLive == InitLive /\ [][NextLive]_vars

(***************************************************************************)
(* execution_tape_profiling, sink.rs.  stack is ProfilingTraceSink::stack; *)
(* an entry holds the kind and depth of its scope and the span its guard   *)
(* keeps open (numbered by the call that opened it).  last.plan is the     *)
(* history of the events the sink received and last.yielded the spans the  *)
(* last event closed, in the order their guards were dropped.              *)
(***************************************************************************)
CallFrame == "CallFrame"
HostCall == "HostCall"
ScopeEntry(kind, depth, span) == [kind |-> kind, depth |-> depth, span |-> span]
Event(ev, kind, depth) == [ev |-> ev, kind |-> kind, depth |-> depth]

RECURSIVE Reversed(_)
Reversed(s) == IF s = <<>> THEN <<>> ELSE Reversed(Tail(s)) \o <<Head(s)>>

\* An unwinding that drops the guards oldest first.
drop_outer_first(entries) == [stack |-> <<>>, closed |-> entries]

\* drop_active_scopes: pop until the stack is empty.
drop_active_scopes(entries) == [stack |-> <<>>, closed |-> Reversed(entries)]

\* on_scope_exit: pop the top when its kind and depth are those of the event,
\* otherwise drop every active scope.
on_scope_exit(entries, kind, depth) ==
  IF /\ entries # <<>>
     /\ entries[Len(entries)].kind = kind
     /\ entries[Len(entries)].depth = depth
  THEN [stack |-> SubSeq(entries, 1, Len(entries) - 1), closed |-> <<entries[Len(entries)]>>]
  ELSE drop_active_scopes(entries)

sink_frame ==
  UNCHANGED <<nodes, dirty, input_ids, scratch, kv, programs, unmarked, limit, heap, buf,
              offset, solver>>

\* TraceSink::scope_enter -> on_scope_enter: push an entry with a new guard.
scope_enter(kind, depth) ==
  /\ ops < limit
  /\ stack' = Append(stack, ScopeEntry(kind, depth, ops))
  /\ last' = [Called("scope_enter", <<kind, depth>>, Ok)
                EXCEPT !.plan = Append(last.plan, Event("enter", kind, depth))]
  /\ ops' = ops + 1
  /\ sink_frame

\* TraceSink::scope_exit -> on_scope_exit.
scope_exit(kind, depth) ==
  /\ ops < limit
  /\ stack' = on_scope_exit(stack, kind, depth).stack
  /\ last' = [Called("scope_exit", <<kind, depth>>, Ok)
                EXCEPT !.plan = Append(last.plan, Event("exit", kind, depth)),
                       !.yielded = on_scope_exit(stack, kind, depth).closed]
  /\ ops' = ops + 1
  /\ sink_frame

ScopeKinds == {CallFrame, HostCall}
Depths == {0, 1}

InitSink == New(DirtyLibraries, MaxSinkOps)

NextSink ==
  \/ \E kind \in ScopeKinds, depth \in Depths : scope_enter(kind, depth)
  \/ \E kind \in ScopeKinds, depth \in Depths : scope_exit(kind, depth)

SpecSink == InitSink /\ [][NextSink]_vars

(***************************************************************************)
(* Properties of the DirtyEngine.                                          *)
(***************************************************************************)
\* The ids that are marked or from which a marked id is reachable along
\* dependency edges.
AffectedByMarks(d) == {i \in Ids(d) : dep_closure(d, {i}) \cap d.marks # {}}

\* C21: a drain yields exactly the ids that are marked dirty or transitively
\* depend on a marked id, each once, and consumes the marks: the engine it
\* leaves has no mark, and a drain that follows it at once yields nothing.
C21_DrainYieldsAffectedOnce ==
  [][last'.op = "drain"
       => /\ Range(last'.yielded) = AffectedByMarks(dirty)
          /\ Len(last'.yielded) = Cardinality(AffectedByMarks(dirty))
          /\ dirty'.marks = {}
          /\ drain_order(dirty') = <<>>
          /\ last.op = "drain" => last'.yielded = <<>>]_vars

\* A drain yielded an id that was not marked, next to the marked one.
C21_Witness ==
  /\ last.op = "drain"
  /\ last.closure # {}
  /\ \E i \in Range(last.yielded) : i \notin last.closure
  /\ dirty.marks = {}

\* C28: marking is lazy.  A mark_dirty call adds its root to the marks and
\* nothing else, and changes no edge; add_dependency and set_dependencies
\* leave the marks alone; a drain yields the ids affected by the marks in the
\* dependency graph as it is when the drain is made, so that an edge added
\* between mark and drain counts and an edge removed in between does not.
C28_MarkingIsLazy ==
  [][/\ last'.op = "mark_dirty" =>
          /\ \E id \in 1..Len(dirty.keys) : dirty'.marks = dirty.marks \cup {id}
          /\ dirty'.edges = dirty.edges
     /\ last'.op \in {"add_dependency", "set_dependencies"} => dirty'.marks = dirty.marks
     /\ last'.op = "drain" =>
          \A i \in 1..Len(dirty.keys) :
            (\E p \in 1..Len(last'.yielded) : last'.yielded[p] = i)
              <=> \E m \in dirty.marks : m \in dep_closure([edges |-> dirty.edges], {i})]_vars

\* A drain right after an add_dependency: one id was marked, and the drain
\* yields it and the dependent that the new edge gave it.
C28_Witness ==
  /\ last.op = "drain"
  /\ last.before.op = "add_dependency"
  /\ Cardinality(last.closure) = 1
  /\ Len(last.yielded) = 2
  /\ Cardinality(dirty.edges) = 1

\* The affected ids of a dependency graph E (pairs <<dependent, dependency>>)
\* and a mark set M.
AffectedIn(E, M) ==
  {i \in M \cup {e[1] : e \in E} : dep_closure([edges |-> E], {i}) \cap M # {}}

\* The topological layer of i among the ids A: the length of the longest
\* chain of dependencies within A that starts at i.
RECURSIVE LayerOf(_, _, _)
LayerOf(E, A, i) ==
  LET deps == {e[2] : e \in {x \in E : x[1] = i}} \cap A
  IN IF deps = {} THEN 0
     ELSE 1 + (CHOOSE m \in {LayerOf(E, A, j) : j \in deps} :
                 \A k \in {LayerOf(E, A, j) : j \in deps} : k <= m)

IsRead(l) == l.op \in {"read_uleb128_u64", "read_sleb128_i64"}

\* C23: reading back what a writer wrote returns the value written and
\* consumes exactly the written bytes: a read_uleb128_u64 that starts where
\* the preceding write_uleb128_u64(v) started returns v and leaves the offset
\* at the length of the buffer, and so do read_sleb128_i64 and
\* write_sleb128_i64, for every value, 0, u64::MAX, i64::MIN and i64::MAX
\* among them.
C23_Leb128RoundTrip ==
  [][/\ (last.op = "write_uleb128_u64" /\ leb_read_u(last.args[2]))
          => last'.res = OkOf(last.args[1]) /\ offset' = Len(buf)
     /\ (last.op = "write_sleb128_i64" /\ leb_read_s(last.args[2]))
          => last'.res = OkOf(last.args[1]) /\ offset' = Len(buf)]_vars

C23_Witness ==
  /\ last.op = "read_sleb128_i64"
  /\ last.before.op = "write_sleb128_i64"
  /\ last.args = <<1>>
  /\ last.res = OkOf(I64Min)
  /\ Len(buf) = 11
  /\ offset = Len(buf)

\* The read of last started at an encoding that reaches a tenth byte.
ReachesTenth(l) ==
  /\ IsRead(l)
  /\ l.args[1] + 10 <= Len(buf)
  /\ \A k \in 1..9 : buf[l.args[1] + k] >= 128

Tenth(l) == buf[l.args[1] + 10]

Fits64(v) == Len(v) = 10 /\ \A k \in 1..10 : v[k] \in 0..GroupMax(k)

\* C24: a read that reaches a tenth byte returns InvalidVarint when that
\* byte's payload is greater than 1 (unsigned) or is neither 0x00 nor 0x7f
\* (signed), and when the byte has the continuation bit set; every value a
\* reader returns fits 64 bits and no reader moves past the tenth byte.
C24_OverflowRejected ==
  /\ (ReachesTenth(last) /\ last.op = "read_uleb128_u64" /\ Tenth(last) % 128 > 1)
       => last.res = InvalidVarint
  /\ (ReachesTenth(last) /\ last.op = "read_sleb128_i64"
        /\ Tenth(last) % 128 \notin {0, 127})
       => last.res = InvalidVarint
  /\ (ReachesTenth(last) /\ Tenth(last) >= 128) => last.res = InvalidVarint
  /\ IsRead(last) =>
       /\ last.res[1] = "Ok" => Fits64(last.res[2])
       /\ offset <= last.args[1] + 10

C24_Witness ==
  /\ ReachesTenth(last)
  /\ last.op = "read_uleb128_u64"
  /\ Len(buf) = 11
  /\ Tenth(last) = 2
  /\ last.res = InvalidVarint
  /\ offset = 10

\* [0x80, 0x00] decodes to 0 with both readers; a successful read leaves the
\* offset one past the first byte without the continuation bit; no read
\* moves the offset back.
AcceptsPaddedZero(l) ==
  /\ (buf = <<128, 0>> /\ l.args = <<0>>) => l.res = OkOf(Zero64) /\ offset = 2
  /\ l.res[1] = "Ok" =>
       /\ offset > l.args[1]
       /\ buf[offset] < 128
       /\ \A k \in (l.args[1] + 1)..(offset - 1) : buf[k] >= 128
  /\ l.args[1] <= offset

\* C25 as stated: the readers accept padded zeros, never move the offset
\* back, and after every read, successful or not, the offset is at most the
\* length of the buffer.
C25_OffsetWithinBuffer ==
  IsRead(last) => AcceptsPaddedZero(last) /\ offset <= Len(buf)

\* C25, amended: the readers accept padded zeros and never move the offset
\* back; after a read that started inside the buffer or at its end the
\* offset is at most the length of the buffer, and a read that started past
\* the end returns UnexpectedEof and leaves the offset where it was.
C25_NonCanonicalAndMonotone ==
  IsRead(last) =>
    /\ AcceptsPaddedZero(last)
    /\ last.args[1] <= Len(buf) => offset <= Len(buf)
    /\ last.args[1] > Len(buf) => last.res = UnexpectedEof /\ offset = last.args[1]

C25_Witness ==
  /\ last.op = "read_sleb128_i64"
  /\ buf = <<128, 0>>
  /\ last.args = <<0>>
  /\ last.res = OkOf(Zero64)
  /\ offset = 2

(***************************************************************************)
(* Aggregate heap (aggregates.rs).                                         *)
(***************************************************************************)
Kinds == {"Tuple", "Struct", "Array"}

KindOf(op) ==
  IF op = "tuple_new" THEN "Tuple" ELSE IF op = "struct_new" THEN "Struct" ELSE "Array"

\* C26: an allocation returns a handle that answers the getters of its kind
\* with the values allocated, their count, and OutOfBounds past the end, and
\* it changes no answer of a handle allocated before it, so that the answers
\* of a handle stay what they were however many allocations follow.
C26_AggregateRoundTripStable ==
  [][heap' # heap =>
       /\ \A i \in 0..(Len(last'.args[1]) - 1) :
            get_of(heap', KindOf(last'.op), last'.res[2], i) = OkOf(last'.args[1][i + 1])
       /\ len_of(heap', KindOf(last'.op), last'.res[2]) = OkOf(Len(last'.args[1]))
       /\ get_of(heap', KindOf(last'.op), last'.res[2], Len(last'.args[1])) = OutOfBounds
       /\ \A handle \in Handles, kind \in Kinds :
            node_at(heap, handle) # BadHandle =>
              /\ len_of(heap', kind, handle) = len_of(heap, kind, handle)
              /\ \A i \in AggIndices :
                   get_of(heap', kind, handle, i) = get_of(heap, kind, handle, i)]_vars

\* C27: every aggregate of the heap holds handles of aggregates allocated
\* before it only: the handles among the values of the node at index h are
\* smaller than h.
C27_HeapAcyclic ==
  \A k \in 1..Len(heap) :
    \A j \in 1..Len(heap[k].values) :
      heap[k].values[j][1] = "Agg" => heap[k].values[j][2] < k - 1

(***************************************************************************)
(* Scheduling (Scratch).                                                   *)
(***************************************************************************)
\* The call l got as far as its drain (run_node returns BadNodeId before it
\* for a node that does not exist).
Drained(l) == IsRun(l) /\ ~(l.res = BadNodeId /\ l.runs = <<>>)

\* The yielded ids that a call may schedule from: all of them in run_all,
\* those of the closure in run_node.
Schedulable(l) ==
  IF l.op = "run_node" THEN Range(l.yielded) \cap l.closure ELSE Range(l.yielded)

\* C29: in every run_all and run_node call, the call of the epoch wrap
\* included, no node is scheduled twice and no node is executed twice, the
\* scheduled nodes are the owners of the yielded output keys the call
\* schedules from (none of them is taken for seen), and the epoch of the
\* drain is not 0.
C29_NodeScheduledOncePerCall ==
  Drained(last) =>
    /\ \A p \in 1..Len(last.plan), q \in 1..Len(last.plan) :
         last.plan[p] = last.plan[q] => p = q
    /\ \A p \in 1..Len(last.runs), q \in 1..Len(last.runs) :
         last.runs[p].node = last.runs[q].node => p = q
    /\ Range(last.plan) = owners(nodes, dirty, Schedulable(last))
    /\ scratch.stamp \in 1..(StampModulus - 1)

\* The call in which the epoch wrapped: node 1 has run, but its stamp is
\* zero again; the epoch is 1 and node 0, two of whose output keys were
\* yielded, was scheduled and executed once.
C29_Witness ==
  /\ last.op = "run_node"
  /\ last.before.op = "invalidate"
  /\ Len(nodes) = 2
  /\ nodes[2].run_count > 0
  /\ scratch.seen_stamp = <<1, 0>>
  /\ scratch.stamp = 1
  /\ last.plan = <<0>>
  /\ Len(last.runs) = 1
  /\ Cardinality({k \in Range(last.yielded) :
                    dirty.keys[k][1] = "TapeOutput" /\ dirty.keys[k][2] = 0}) = 2

(***************************************************************************)
(* The committed access log.                                               *)
(***************************************************************************)
\* C30: the committed access log of a node that has run lists the accesses
\* in program order: the argument Reads, one per input name, then the
\* accesses its host calls recorded during the run, in their order, then the
\* Writes of its outputs in output order.
C30_AccessLogInProgramOrder ==
  \A k \in 1..Len(nodes) :
    nodes[k].run_count > 0 =>
      LET n == nodes[k]
          log == n.last_access
          args == Len(n.input_names)
          host == tape_access(n.program)
      IN /\ Len(log) = args + Len(host) + Len(n.output_names)
         /\ \A i \in 1..args : log[i][1] = "Read"
         /\ \A i \in 1..Len(host) : log[args + i] = host[i]
         /\ \A i \in 1..Len(n.output_names) :
              log[args + Len(host) + i] = Write(TapeOutput(k - 1, n.output_names[i]))

(***************************************************************************)
(* Properties of the dataflow solvers.                                     *)
(***************************************************************************)
\* C31: solve_forward and solve_backward terminate: on every CFG (loops,
\* self-loops and blocks flagged unreachable included) and every monotone
\* meet and transfer, a solver that has reached its loop empties the worklist
\* and returns.
C31_SolversTerminate ==
  (solver.dir # "none" /\ ~solver.done) ~> solver.done

\* A forward solve returned on a CFG whose block 1 loops on itself and back to
\* block 0, after the loop carried a state that is not bottom.
C31_Witness ==
  /\ solver.done
  /\ solver.dir = "forward"
  /\ Len(solver.blocks) = 2
  /\ solver.blocks[1].succs = <<1>>
  /\ solver.blocks[2].succs = <<1, 0>>
  /\ solver.out_states[2] # solver.bottom
  /\ solver.in_states[1] # solver.bottom

\* Block b is flagged reachable in the problem the solver was given.
Flagged(b) == flagged(solver.reachable, b)
FlowIds == 0..(Len(solver.blocks) - 1)
In(b) == solver.in_states[b + 1]
Out(b) == solver.out_states[b + 1]
Succs(b) == Range(solver.blocks[b + 1].succs)

\* C32: the state solve_forward returns is a fixpoint: OUT[b] is the transfer
\* of IN[b] for every reachable block, meeting OUT[b] into IN[s] changes
\* nothing for every edge b -> s between reachable blocks, and a block flagged
\* unreachable keeps bottom as IN and OUT.
C32_ForwardFixpoint ==
  (solver.done /\ solver.dir = "forward") =>
    \A b \in FlowIds :
      /\ Flagged(b) => Out(b) = transfer_block(solver.blocks, b, In(b))
      /\ Flagged(b) =>
           \A succ \in Succs(b) :
             Flagged(succ) => meet_into(solver.meet, In(succ), Out(b)) = In(succ)
      /\ ~Flagged(b) => In(b) = solver.bottom /\ Out(b) = solver.bottom

\* USE[b] as the claim words it: the registers other than 0 that an
\* instruction of b reads while no earlier instruction of b wrote them.
Use(b) ==
  {r \in {0, 1, 2} \ {0} :
     \E i \in 1..Len(solver.blocks[b + 1].instrs) :
       /\ r \in solver.blocks[b + 1].instrs[i].reads
       /\ \A j \in 1..(i - 1) : r \notin solver.blocks[b + 1].instrs[j].writes}
Def(b) ==
  {r \in {0, 1, 2} \ {0} :
     \E i \in 1..Len(solver.blocks[b + 1].instrs) :
       r \in solver.blocks[b + 1].instrs[i].writes}

\* C33: compute_liveness returns the liveness fixpoint: for every reachable
\* block live_out is the union of live_in over its reachable successors and
\* live_in is USE united with live_out minus DEF, and register 0 is in none
\* of the sets.
C33_LivenessFixpoint ==
  (solver.done /\ last.op = "compute_liveness") =>
    \A b \in FlowIds :
      /\ Flagged(b) => Out(b) = UNION {In(succ) : succ \in {x \in Succs(b) : Flagged(x)}}
      /\ Flagged(b) => In(b) = Use(b) \cup (Out(b) \ Def(b))
      /\ 0 \notin In(b) \cup Out(b) \cup solver.blocks[b + 1].gen \cup solver.blocks[b + 1].kill

\* compute_liveness returned for a loop of two blocks: block 0 reads and
\* writes register 1 in one instruction, block 1 reads register 0 and
\* register 2, and register 2 is live around the loop.
C33_Witness ==
  /\ solver.done
  /\ last.op = "compute_liveness"
  /\ Len(solver.blocks) = 2
  /\ solver.reachable = <<TRUE, TRUE>>
  /\ solver.blocks[1].succs = <<1>>
  /\ solver.blocks[2].succs = <<0>>
  /\ solver.blocks[1].instrs = <<Instr({1}, {1})>>
  /\ solver.blocks[2].instrs = <<Instr({0, 2}, {0, 1})>>
  /\ In(0) = {1, 2}
  /\ Out(1) = {1, 2}

(***************************************************************************)
(* Properties of the profiling trace sink.                                 *)
(***************************************************************************)
\* The scopes a history of events leaves open when every exit in it names
\* the innermost open scope; <<"bad">> when some exit does not.
RECURSIVE Nesting(_, _, _)
Nesting(h, i, open) ==
  IF i > Len(h) THEN open
  ELSE IF h[i].ev = "enter" THEN Nesting(h, i + 1, <<h[i]>> \o open)
  ELSE IF open # <<>> /\ Head(open).kind = h[i].kind /\ Head(open).depth = h[i].depth
  THEN Nesting(h, i + 1, Tail(open))
  ELSE <<"bad">>
WellNested(h) == Nesting(h, 1, <<>>) = <<>>

TopMatches ==
  /\ stack # <<>>
  /\ stack[Len(stack)].kind = last'.args[1]
  /\ stack[Len(stack)].depth = last'.args[2]

\* C34: a scope_exit that matches the top entry pops exactly that entry, so a
\* well-nested sequence of events ends with an empty stack; a scope_exit that
\* does not match the top closes every active scope, innermost first, and
\* leaves none open; a scope_exit on an empty stack changes nothing.
C34_SinkToleratesUnexpectedExits ==
  /\ [][(last'.op = "scope_exit" /\ ops' = ops + 1) =>
          /\ TopMatches =>
               /\ stack = Append(stack', stack[Len(stack)])
               /\ last'.yielded = <<stack[Len(stack)]>>
          /\ ~TopMatches =>
               /\ stack' = <<>>
               /\ Len(last'.yielded) = Len(stack)
               /\ \A i \in 1..Len(stack) : last'.yielded[i] = stack[Len(stack) + 1 - i]
          /\ stack = <<>> => stack' = stack /\ last'.yielded = <<>>]_vars
  /\ [](WellNested(last.plan) => stack = <<>>)

\* Two scopes were open and an exit for the outer one arrived: both were
\* closed, the inner one first.
C34_Witness ==
  /\ last.op = "scope_exit"
  /\ Len(last.yielded) = 2
  /\ last.yielded[1].span > last.yielded[2].span
  /\ last.args = <<last.yielded[2].kind, last.yielded[2].depth>>
  /\ stack = <<>>

(***************************************************************************)
(* Properties of incremental runs.                                         *)
(***************************************************************************)
\* ns with every output of every node set to 0.
Blank(ns) ==
  AsSeq([i \in 1..Len(ns) |->
    [ns[i] EXCEPT !.outputs = [x \in Range(ns[i].output_names) |-> 0]]])

\* k rounds in which every node is executed on the outputs of the round
\* before.
RECURSIVE Evaluated(_, _, _)
Evaluated(ns, kvs, k) ==
  IF k = 0 THEN ns
  ELSE Evaluated(AsSeq([i \in 1..Len(ns) |->
                   [ns[i] EXCEPT !.outputs = Recomputed(ns, kvs, i - 1)]]), kvs, k - 1)

\* The outputs of every node after all nodes were executed from scratch in
\* topological order of the (acyclic) wiring.
FromScratch(ns, kvs) == Evaluated(Blank(ns), kvs, Len(ns))

\* C35 as stated: with acyclic wiring, no failed run and every rebinding of
\* an input followed by the invalidation of its key, after a run_all that
\* returns Ok the committed outputs of every node are those of executing all
\* nodes from scratch in topological order on the current bindings.
C35_IncrementalSoundness ==
  (last.op = "run_all" /\ last.res = Ok /\ AcyclicWiring(nodes)) =>
    \A n \in 1..Len(nodes) : nodes[n].outputs = FromScratch(nodes, kv)[n].outputs

\* The outcome of a run_all called with the nodes ns, the engine d and the
\* scratch s.
RunAllFrom(ns, d, s) ==
  run_scheduled(ns, drain(d), kv,
                schedule_all(start_drain(s, Len(ns)), d, drain_order(d), 1).to_run, 1, <<>>)

Outputs(ns) == AsSeq([i \in 1..Len(ns) |-> ns[i].outputs])

\* C36 as stated: a run_node that returns Ok, followed by a run_all that
\* returns Ok, leaves every node with the committed outputs, and the engine
\* with the empty set of marks, that a single successful run_all from the
\* state before the run_node leaves.
C36_TargetedAndGlobalRunsAgree ==
  [][(/\ last'.op = "run_node" /\ last'.res = Ok /\ ops' = ops + 1
      /\ RunAllFrom(nodes', dirty', scratch').res = Ok
      /\ RunAllFrom(nodes, dirty, scratch).res = Ok)
       => /\ Outputs(RunAllFrom(nodes', dirty', scratch').nodes)
               = Outputs(RunAllFrom(nodes, dirty, scratch).nodes)
          /\ RunAllFrom(nodes', dirty', scratch').dirty.marks = {}
          /\ RunAllFrom(nodes, dirty, scratch).dirty.marks = {}]_vars

\* C37: set_input_value changes only the binding: it marks no key and touches
\* no dependency edge, so in a graph without dirty marks a set_input_value
\* followed by run_all executes no node and every committed output keeps the
\* value computed from the old binding.
C37_SetInputValueChangesOnlyBinding ==
  [][/\ (last'.op = "set_input_value" /\ ops' = ops + 1) =>
          /\ dirty' = dirty
          /\ scratch' = scratch
          /\ input_ids' = input_ids
          /\ Len(nodes') = Len(nodes)
          /\ \A i \in 1..Len(nodes) : nodes'[i] = [nodes[i] EXCEPT !.inputs = nodes'[i].inputs]
     /\ (/\ last.op = "set_input_value" /\ dirty.marks = {}
         /\ last'.op = "run_all" /\ ops' = ops + 1) =>
          /\ last'.runs = <<>>
          /\ last'.res = Ok
          /\ nodes' = nodes]_vars

\* A node ran on an external value, the value was replaced without an
\* invalidation, and the run_all that followed ran nothing: the committed
\* output is still the one computed from the old value.
C37_Witness ==
  /\ last.op = "run_all"
  /\ last.before.op = "set_input_value"
  /\ last.runs = <<>>
  /\ dirty.marks = {}
  /\ \E i \in 1..Len(nodes) :
       /\ nodes[i].run_count = 1
       /\ nodes[i].program = ProgIdent
       /\ "a" \in DOMAIN nodes[i].inputs
       /\ nodes[i].inputs["a"][1] = "External"
       /\ nodes[i].outputs # Recomputed(nodes, kv, i - 1)

\* C38 as stated: in the state a successful run of a node leaves, the
\* dependency sets of any two of its declared output keys are equal, also
\* when the cycle check rejected the rewrite for one of the keys.
C38_OutputKeysShareDependencies ==
  \A n \in 1..Len(nodes) :
    (last.op = "run_all" /\ (n - 1) \in ran_ok(last)) =>
      \A i \in 1..Len(nodes[n].output_names), j \in 1..Len(nodes[n].output_names) :
        dependencies(dirty, intern_id(dirty, TapeOutput(n - 1, nodes[n].output_names[i])))
          = dependencies(dirty, intern_id(dirty, TapeOutput(n - 1, nodes[n].output_names[j])))

\* The last successful run of the node ns[n] logged the access.
Logged(n, access) == access \in Range(nodes[n].last_access)

\* C39: a Write in a node's log marks no key: marks are added only by
\* add_node, connect, invalidate, invalidate_input, invalidate_tape_key and
\* the restore step of run_node, which marks only drained keys outside the
\* closure; a run_all leaves no mark, so a run_all that follows a successful
\* run_all executes no node, whatever the nodes wrote.
C39_WritesNeverScheduleWork ==
  [][/\ (dirty'.marks \ dirty.marks # {}) =>
          last'.op \in {"add_node", "connect", "invalidate", "invalidate_input", "run_node"}
     /\ (last'.op = "run_node" /\ last'.res # BadNodeId /\ ops' = ops + 1) =>
          dirty'.marks \subseteq (Range(last'.yielded) \ last'.closure)
     /\ (last'.op = "run_all" /\ ops' = ops + 1) => dirty'.marks = {}
     /\ (last.op = "run_all" /\ last.res = Ok /\ last'.op = "run_all" /\ ops' = ops + 1) =>
          last'.runs = <<>> /\ nodes' = nodes]_vars

\* A node logged a read of HostState(1, 1), a node after it logged a write of
\* the same key and of its own output, and the next run_all ran nothing.
C39_Witness ==
  /\ last.op = "run_all"
  /\ last.before.op = "run_all"
  /\ last.before.ran = {0, 1}
  /\ last.runs = <<>>
  /\ Len(nodes) = 2
  /\ Logged(1, Read(HostState(1, 1)))
  /\ Logged(2, Write(HostState(1, 1)))
  /\ Logged(2, Write(TapeOutput(1, "ret0")))
  /\ dirty.marks = {}

\* The node ns[n] has run, and the name is in its input-name list with an
\* External binding.
BoundExternally(n, name) ==
  /\ nodes[n].run_count > 0
  /\ name \in Range(nodes[n].input_names)
  /\ name \in DOMAIN nodes[n].inputs
  /\ nodes[n].inputs[name][1] = "External"

\* C40 as stated: Input(name) is global to the graph: after nodes have run,
\* invalidate_input(name) followed by a run_all re-executes every node that
\* has an External binding under that name in its input-name list.
C40_InputKeysAreGlobal ==
  [][(/\ last.op = "invalidate_input" /\ last.args = <<Input("a")>>
      /\ last'.op = "run_all" /\ last'.res = Ok /\ ops' = ops + 1)
       => \A n \in 1..Len(nodes) : BoundExternally(n, "a") => (n - 1) \in ran_ok(last')]_vars

====
